---- MODULE Spec2Model ----
(***************************************************************************)
(* Model of the asynchronous processing pipeline of the review e-mail      *)
(* agent: the scheduler, the ingestion task check_emails_for_account, the  *)
(* analysis task analyze_review with the staged analysis workflow, on top  *)
(* of a relational store (one transaction per task session), the Celery    *)
(* broker and result backend, and the mail provider.                       *)
(***************************************************************************)
EXTENDS Integers, Sequences, FiniteSets, Bags, TLC

\* ------------------------------------------------------------------------
\* Bounds of the model
\* ------------------------------------------------------------------------
MaxClock == 1        \* the wall clock runs from 0 to MaxClock
MaxMsg == 2          \* provider message ids are 1..MaxMsg
MaxDispatch == 2     \* ingestion tasks dispatched by the scheduler
MaxFaults == 1       \* environment faults injected in one behaviour
MaxAnalysisFaults == 4  \* the same, where only the analysis task runs
MaxRegenerate == 1   \* regeneration requests for one review
MaxAccounts == 2     \* rows of the email_accounts table
MaxStateTokens == 2  \* CSRF state tokens issued by get_authorization_url

Workers == {1, 2}    \* Celery worker processes
Messages == 1..MaxMsg
None == -1           \* NULL timestamp

\* ------------------------------------------------------------------------
\* Program constants
\* ------------------------------------------------------------------------
CheckMaxRetries == 5
AnalyzeMaxRetries == 3
ErrNoteMax == 200

PlanType == {"free", "starter", "professional", "enterprise"}
Sentiments == {"positive", "negative", "neutral"}
Priorities == {"critical", "important", "normal"}

VARIABLES
    clock,      \* datetime.now(timezone.utc)
    account,    \* the committed EmailAccount row
    plan,       \* User.plan of the account's owner
    mailbox,    \* provider inbox: message id -> received time (None: absent)
    reviews,    \* committed Review rows
    queue,      \* Celery broker: bag of task messages
    result,     \* Celery result backend: task id -> state
    execs,      \* task id -> number of executions started by a worker
    delays,     \* task id -> number of .delay() calls that enqueued it
    worker,     \* per worker: the task execution in progress
    dispatched, \* number of ingestion tasks dispatched so far
    faults,     \* environment faults still to be injected (Unlimited: any)
    wf,         \* one invocation of the analysis workflow (inputs, result)
    nt,         \* one call of NotificationService.send_review_notification
    gen,        \* one call of ResponseGenerator.generate_responses
    dt,         \* the draft_responses rows of a review and the draft tasks
    sch,        \* one run of schedule_email_checks over the accounts table
    gm,         \* one provider HTTP error handled by the GmailClient
    oa          \* GmailOAuthService: state tokens, accounts, calls in progress

vars == <<clock, account, plan, mailbox, reviews, queue, result, execs,
          delays, worker, dispatched, faults, wf, nt, gen, dt, sch, gm,
          oa>>

\* the state of the services the pipeline tasks call, and of the scheduler
\* run over several accounts
svc == <<nt, gen, dt, sch, gm, oa>>

\* ------------------------------------------------------------------------
\* Helpers
\* ------------------------------------------------------------------------
Min(a, b) == IF a <= b THEN a ELSE b

NoId == <<"none", 0, 0, 0>>
CheckId(n) == <<"check", n, 0, 0>>
\* A Review row is identified by the run that inserted it and the message.
ReviewId(tid, retries, m) == <<"review", tid[2], retries, m>>
AnalyzeId(rid) == <<"analyze", rid[2], rid[3], rid[4]>>
ReviewOf(tid) == <<"review", tid[2], tid[3], tid[4]>>

Msg(id, retries) == [id |-> id, retries |-> retries]
Enqueue(q, m) == q (+) SetToBag({m})
Dequeue(q, m) == q (-) SetToBag({m})

SetResult(res, id, st) == [x \in DOMAIN res \cup {id} |->
                              IF x = id THEN st ELSE res[x]]
Bump(cnt, id) == [x \in DOMAIN cnt \cup {id} |->
                    IF x = id THEN (IF id \in DOMAIN cnt THEN cnt[id] + 1 ELSE 1)
                    ELSE cnt[x]]
Count(cnt, id) == IF id \in DOMAIN cnt THEN cnt[id] ELSE 0

NoAnalysis == [sentiment |-> "None", priority |-> "None", summary |-> "",
               problems |-> "empty", suggestions |-> "empty",
               customer_name |-> "None", requires_response |-> FALSE,
               depth |-> "none"]
NoSummary == [kind |-> "None", len |-> 0]

NoWf == [stage |-> "none", depth |-> "none", raw |-> "none",
         out |-> NoAnalysis, trace |-> <<>>]

\* NotificationSettings row; telegram_chat_id / phone_number: is it set
DefaultSettings ==
    [email_enabled |-> TRUE, telegram_enabled |-> FALSE,
     sms_enabled |-> FALSE, telegram_chat_id |-> FALSE,
     phone_number |-> FALSE, notify_on_critical |-> TRUE,
     notify_on_important |-> TRUE, notify_on_normal |-> FALSE]

NoNotifySummary ==
    [total_channels |-> 0, successful |-> 0, failed |-> 0, results |-> <<>>]

NoNt == [pc |-> "none", has_settings |-> FALSE, settings |-> DefaultSettings,
         configured |-> {}, priority |-> "None", notified |-> FALSE,
         channels |-> <<>>, idx |-> 1, sent |-> <<>>, results |-> <<>>,
         summary |-> NoNotifySummary]

\* variant content: the text of the model call for variant k, or the
\* template (the same text for every variant of a review)
NoContent == [kind |-> "none", k |-> 0]

NoGen == [pc |-> "none", n |-> 0, k |-> 1, drafts |-> <<>>,
          previous_responses |-> <<>>, prompts |-> <<>>, outcomes |-> <<>>]

DraftTasks == {1, 2}

IdleDraftTask == [pc |-> "idle", kind |-> "none", num_variants |-> 0,
                  existing |-> {}, drafts |-> {}]

NoDt == [rows |-> {}, task |-> [t \in DraftTasks |-> IdleDraftTask]]

NoSch == [pc |-> "none", accounts |-> <<>>, now |-> None, due |-> <<>>,
          idx |-> 1, attempts |-> <<>>]

NoReason == [accessNotConfigured |-> FALSE, insufficientPermissions |-> FALSE]

NoGm == [pc |-> "none", status |-> 0, reason |-> NoReason, raised |-> "None"]

\* Redis holds no state token, email_accounts is empty, no call in progress
Callbacks == {1, 2}

IdleCallback == [pc |-> "idle", state |-> 0, code |-> 0, email |-> "None",
                 refresh_token |-> FALSE, existing |-> 0]

NoRefresh == [pc |-> "none", row |-> 0, outcome |-> "none"]

NoOa == [redis |-> {}, issued |-> 0, used |-> {},
         accounts |-> <<>>, cb |-> [c \in Callbacks |-> IdleCallback],
         rf |-> NoRefresh]

IdleServices ==
    /\ nt = NoNt /\ gen = NoGen /\ dt = NoDt /\ sch = NoSch /\ gm = NoGm
    /\ oa = NoOa

IdleW == [pc |-> "idle", id |-> NoId, retries |-> 0,
          after |-> None, page |-> <<>>, listed |-> {}, idx |-> 1,
          pending |-> {}, poisoned |-> FALSE, errors |-> 0, conflicts |-> 0,
          new_emails |-> 0, now |-> None, auth401 |-> FALSE,
          analysis |-> NoAnalysis]

\* Review(...) as constructed by check_emails_for_account
NewReview(rid, m) ==
    [id |-> rid, message_id |-> m, is_processed |-> FALSE,
     sentiment |-> "None", priority |-> "None",
     summary |-> NoSummary, processed_at |-> None]

\* ------------------------------------------------------------------------
\* Celery: Task.retry
\* ------------------------------------------------------------------------
\* self.retry(exc=...): re-enqueues the task with retries + 1 and raises
\* Retry; once retries + 1 > max_retries it enqueues nothing and raises the
\* exception it was given, MaxRetriesExceededError only when given none.
RetryOutcome(retries, maxRetries, excGiven) ==
    IF retries + 1 > maxRetries
    THEN (IF excGiven THEN "exc" ELSE "MaxRetriesExceededError")
    ELSE "Retry"

\* ------------------------------------------------------------------------
\* Relational store
\* ------------------------------------------------------------------------
\* Rows a session sees: committed rows and its own flushed rows.
Visible(w) == reviews \cup worker[w].pending

\* variant: the index is not unique
UniqueViolation_NotUnique(m) == FALSE

\* Unique index ix_reviews_email_account_message on (account, message_id):
\* an INSERT conflicts with a committed row of the same key ...
UniqueViolation(m) == \E r \in reviews : r.message_id = m
\* ... and waits for a transaction holding an uncommitted row of that key.
UniqueWait(w, m) ==
    \E v \in Workers \ {w} : \E r \in worker[v].pending : r.message_id = m

\* ------------------------------------------------------------------------
\* GmailClient: the classification of provider HTTP errors
\* ------------------------------------------------------------------------
\* variant: as the docstring has it, every 403 is an auth error
_handle_http_error_403IsAuth(status_code, reason) ==
    IF status_code = 401 THEN "GmailAuthError"
    ELSE IF status_code = 403 THEN "GmailAuthError"
    ELSE IF status_code = 429 THEN "GmailRateLimitError"
    ELSE IF status_code >= 500 THEN "GmailTemporaryError"
    ELSE "GmailClientError"

\* the exception _handle_http_error raises; status_code: error.resp.status,
\* 0 without a response; reason: which markers str(error) contains
_handle_http_error(status_code, reason) ==
    IF status_code = 401 THEN "GmailAuthError"
    ELSE IF status_code = 403
    THEN (IF reason.accessNotConfigured THEN "GmailAuthError"
          ELSE IF reason.insufficientPermissions THEN "GmailAuthError"
          ELSE "GmailClientError")
    ELSE IF status_code = 429 THEN "GmailRateLimitError"
    ELSE IF status_code >= 500 THEN "GmailTemporaryError"
    ELSE "GmailClientError"

\* how the tasks treat an exception of the client: GmailRateLimitError is
\* a GmailTemporaryError; both are in autoretry_for
ErrorClass(exc) ==
    CASE exc = "GmailAuthError" -> "auth"
      [] exc \in {"GmailRateLimitError", "GmailTemporaryError"} -> "retryable"
      [] exc = "GmailClientError" -> "client"
      [] OTHER -> "none"

\* except HttpError as e: self._handle_http_error(e)
HandleHttpError ==
    /\ gm.pc = "error"
    /\ gm' = [gm EXCEPT !.pc = "raised",
                        !.raised = _handle_http_error(gm.status, gm.reason)]
    /\ UNCHANGED <<clock, account, plan, mailbox, reviews, queue, result,
                   execs, delays, worker, dispatched, faults, wf, oa, nt, gen,
                   dt, sch>>

\* ------------------------------------------------------------------------
\* Mail provider
\* ------------------------------------------------------------------------
\* messages.list with q = "after:<epoch>", newest first
Listing(after) ==
    {m \in Messages : mailbox[m] # None /\ (after = None \/ mailbox[m] >= after)}

RECURSIVE SeqOfSet(_)
SeqOfSet(S) ==
    IF S = {} THEN <<>>
    ELSE LET m == CHOOSE x \in S : \A y \in S : y <= x
         IN <<m>> \o SeqOfSet(S \ {m})

\* a connected account that was never checked, an empty store and broker
Fresh ==
    /\ clock = 0
    /\ account = [exists |-> TRUE, is_active |-> TRUE, last_checked_at |-> None,
                  check_interval_minutes |-> 1]
    /\ mailbox = [m \in Messages |-> None]
    /\ reviews = {}
    /\ queue = EmptyBag
    /\ result = <<>>
    /\ execs = <<>>
    /\ delays = <<>>
    /\ worker = [w \in Workers |-> IdleW]
    /\ dispatched = 0
    /\ wf = NoWf
    /\ IdleServices

\* ------------------------------------------------------------------------
\* Environment
\* ------------------------------------------------------------------------
Unlimited == -1

\* a provider, broker, database or worker fault happens
UseFault ==
    IF faults = Unlimited THEN UNCHANGED faults
    ELSE faults > 0 /\ faults' = faults - 1

Tick ==
    /\ clock < MaxClock
    /\ clock' = clock + 1
    /\ UNCHANGED <<account, plan, mailbox, reviews, queue, result, execs,
                   delays, worker, dispatched, wf, svc, faults>>

\* a message is delivered to the inbox
Arrive(m) ==
    /\ mailbox[m] = None
    /\ mailbox' = [mailbox EXCEPT ![m] = clock]
    /\ UNCHANGED <<clock, account, plan, reviews, queue, result, execs,
                   delays, worker, dispatched, wf, svc, faults>>

\* ------------------------------------------------------------------------
\* schedule_email_checks
\* ------------------------------------------------------------------------
Due == /\ account.exists
       /\ account.is_active
       /\ \/ account.last_checked_at = None
          \/ account.last_checked_at + account.check_interval_minutes <= clock

schedule_email_checks ==
    /\ dispatched < MaxDispatch
    /\ Due
    /\ dispatched' = dispatched + 1
    /\ queue' = Enqueue(queue, Msg(CheckId(dispatched + 1), 0))
    /\ delays' = Bump(delays, CheckId(dispatched + 1))
    /\ UNCHANGED <<clock, account, plan, mailbox, reviews, result, execs,
                   worker, wf, svc, faults>>

\* One run of the scheduler over a table of several accounts.
AccountIds == 1..MaxAccounts

\* the check task dispatched for account a by the n-th delay of the run
AccountCheckId(a, n) == <<"check", n, a, 0>>

\* variant: an account is due only after the interval has passed
IsDue_Strict(a, now) ==
    \/ a.last_checked_at = None
    \/ a.last_checked_at + a.check_interval_minutes < now

\* account.last_checked_at is None, or
\* last_checked_at + timedelta(minutes=check_interval_minutes) <= now
IsDue(a, now) ==
    \/ a.last_checked_at = None
    \/ a.last_checked_at + a.check_interval_minutes <= now

\* now = datetime.now(); select(EmailAccount).where(is_active == True);
\* the loop that fills due_accounts
ScheduleSelect ==
    /\ sch.pc = "ready"
    /\ LET active == {a \in AccountIds : sch.accounts[a].is_active}
           due == {a \in active : IsDue(sch.accounts[a], clock)}
       IN  sch' = [sch EXCEPT !.pc = "dispatch", !.now = clock,
                              !.due = SeqOfSet(due), !.idx = 1]
    /\ UNCHANGED <<clock, account, plan, mailbox, reviews, queue, result,
                   execs, delays, worker, dispatched, faults,
                   wf, oa, nt, gen, dt, gm>>

\* one iteration of: for account in due_accounts:
\*     check_emails_for_account.delay(str(account.id))
\* accepted: the broker took the task (otherwise the error is logged)
ScheduleDispatch(accepted) ==
    /\ sch.pc = "dispatch"
    /\ sch.idx <= Len(sch.due)
    /\ LET a == sch.due[sch.idx]
           id == AccountCheckId(a, sch.idx)
       IN  /\ sch' = [sch EXCEPT !.idx = @ + 1,
                                 !.attempts = Append(@,
                                     [account |-> a, accepted |-> accepted])]
           /\ IF accepted
              THEN /\ queue' = Enqueue(queue, Msg(id, 0))
                   /\ delays' = Bump(delays, id)
              ELSE UNCHANGED <<queue, delays>>
    /\ UNCHANGED <<clock, account, plan, mailbox, reviews, result, execs,
                   worker, dispatched, faults, wf, oa, nt, gen, dt, gm>>

\* return {"accounts_dispatched": accounts_checked, ...}
ScheduleReturn ==
    /\ sch.pc = "dispatch"
    /\ sch.idx > Len(sch.due)
    /\ sch' = [sch EXCEPT !.pc = "done"]
    /\ UNCHANGED <<clock, account, plan, mailbox, reviews, queue, result,
                   execs, delays, worker, dispatched, faults,
                   wf, oa, nt, gen, dt, gm>>

\* ------------------------------------------------------------------------
\* Celery worker: end of one task execution
\* ------------------------------------------------------------------------
\* state: the Celery state; ret: which return statement or exception ended
\* the execution; fetched, new, errors: emails_fetched, new_emails and
\* len(errors) of the dict check_emails_for_account returns
RunResult(st, ret, fetched, new, errors) ==
    [state |-> st, ret |-> ret, fetched |-> fetched, new |-> new,
     errors |-> errors]
TaskResult(st, ret) == RunResult(st, ret, 0, 0, 0)

\* the task function returned or raised: the session is closed (finally:
\* db.close() rolls back what was not committed) and the state is recorded
EndTask(w, st, ret) ==
    /\ worker' = [worker EXCEPT ![w] = IdleW]
    /\ result' = SetResult(result, worker[w].id, TaskResult(st, ret))

\* the broker after one self.retry(exc=e) of the task a worker executes
RetryQueue(q, w, maxRetries) ==
    IF RetryOutcome(worker[w].retries, maxRetries, TRUE) = "Retry"
    THEN Enqueue(q, Msg(worker[w].id, worker[w].retries + 1))
    ELSE q

\* state recorded for a task that left through self.retry(exc=e) inside
\* try: ... except MaxRetriesExceededError: return {...}
RetryResult(retries, maxRetries) ==
    LET o == RetryOutcome(retries, maxRetries, TRUE)
    IN  CASE o = "Retry" -> TaskResult("RETRY", "retry")
          [] o = "exc" -> TaskResult("FAILURE", "raised")
          [] OTHER -> TaskResult("SUCCESS", "max_retries")

\* ------------------------------------------------------------------------
\* check_emails_for_account
\* ------------------------------------------------------------------------
\* except Exception as e: try: raise self.retry(exc=e, countdown=60)
\*                        except MaxRetriesExceededError: return {...}
CheckOuterExcept(w) ==
    /\ queue' = RetryQueue(queue, w, CheckMaxRetries)
    /\ worker' = [worker EXCEPT ![w] = IdleW]
    /\ result' = SetResult(result, worker[w].id,
                           RetryResult(worker[w].retries, CheckMaxRetries))

\* variant: the is_active check is missing
CheckStart_NoActiveCheck(w) ==
    /\ worker[w].pc = "idle"
    /\ \E msg \in BagToSet(queue) :
        /\ msg.id[1] = "check"
        /\ queue' = Dequeue(queue, msg)
        /\ execs' = Bump(execs, msg.id)
        /\ IF ~account.exists
           THEN /\ result' = SetResult(result, msg.id,
                                       TaskResult("SUCCESS", "not_found"))
                /\ UNCHANGED worker
           ELSE /\ result' = SetResult(result, msg.id,
                                       TaskResult("STARTED", "none"))
                /\ worker' = [worker EXCEPT ![w] =
                       [IdleW EXCEPT !.pc = "fetch", !.id = msg.id,
                                     !.retries = msg.retries,
                                     !.after = account.last_checked_at]]
    /\ UNCHANGED <<clock, account, plan, mailbox, reviews, delays,
                   dispatched, wf, svc, faults>>

\* a worker takes a check task from the broker and loads the account
CheckStart(w) ==
    /\ worker[w].pc = "idle"
    /\ \E msg \in BagToSet(queue) :
        /\ msg.id[1] = "check"
        /\ queue' = Dequeue(queue, msg)
        /\ execs' = Bump(execs, msg.id)
        /\ IF ~account.exists
           THEN /\ result' = SetResult(result, msg.id,
                                       TaskResult("SUCCESS", "not_found"))
                /\ UNCHANGED worker
           ELSE IF ~account.is_active
           THEN /\ result' = SetResult(result, msg.id,
                                       TaskResult("SUCCESS", "not_active"))
                /\ UNCHANGED worker
           ELSE /\ result' = SetResult(result, msg.id,
                                       TaskResult("STARTED", "none"))
                /\ worker' = [worker EXCEPT ![w] =
                       [IdleW EXCEPT !.pc = "fetch", !.id = msg.id,
                                     !.retries = msg.retries,
                                     !.after = account.last_checked_at]]
    /\ UNCHANGED <<clock, account, plan, mailbox, reviews, delays,
                   dispatched, wf, svc, faults>>

\* GmailClient.get_messages: the listing, then the details of each listed
\* message; a message whose detail fetch fails is left out of the page.
\* fetched: the listed messages whose details were fetched; auth401: some
\* detail fetch was answered 401.
GetMessages(w, fetched, auth401) ==
    /\ worker[w].pc = "fetch"
    /\ fetched \subseteq Listing(worker[w].after)
    /\ auth401 => fetched # Listing(worker[w].after)
    /\ worker' = [worker EXCEPT ![w].pc = "loop",
                                ![w].listed = Listing(worker[w].after),
                                ![w].page = SeqOfSet(fetched),
                                ![w].auth401 = auth401,
                                ![w].idx = 1]
    /\ UNCHANGED <<clock, account, plan, mailbox, reviews, queue, result,
                   execs, delays, dispatched, wf, svc>>

GetMessagesOk(w) ==
    /\ GetMessages(w, Listing(worker[w].after), FALSE)
    /\ UNCHANGED faults

GetMessagesPartial(w) ==
    \E fetched \in SUBSET Listing(worker[w].after) : \E auth401 \in BOOLEAN :
        /\ fetched # Listing(worker[w].after)
        /\ GetMessages(w, fetched, auth401)
        /\ UseFault

\* except GmailAuthError: the listing was answered 401
GetMessagesAuthError(w) ==
    /\ worker[w].pc = "fetch"
    /\ account' = [account EXCEPT !.is_active = FALSE]
    /\ EndTask(w, "SUCCESS", "oauth")
    /\ UNCHANGED <<clock, plan, mailbox, reviews, queue, execs, delays,
                   dispatched, wf, svc>>
    /\ UseFault

\* variant: a retryable error ends the run like any return, without retry
GetMessagesRetryable_NoRetry(w) ==
    /\ worker[w].pc = "fetch"
    /\ EndTask(w, "FAILURE", "raised")
    /\ UNCHANGED <<clock, account, plan, mailbox, reviews, queue, execs,
                   delays, dispatched, wf, svc>>
    /\ UseFault

\* GmailRateLimitError / GmailTemporaryError are re-raised to the
\* autoretry_for wrapper, which calls self.retry(exc=exc) and raises
GetMessagesRetryable(w) ==
    /\ worker[w].pc = "fetch"
    /\ queue' = RetryQueue(queue, w, CheckMaxRetries)
    /\ IF RetryOutcome(worker[w].retries, CheckMaxRetries, TRUE) = "Retry"
       THEN EndTask(w, "RETRY", "retry")
       ELSE EndTask(w, "FAILURE", "raised")
    /\ UNCHANGED <<clock, account, plan, mailbox, reviews, execs, delays,
                   dispatched, wf, svc>>
    /\ UseFault

\* any other exception of get_messages is re-raised to the outer handler
GetMessagesClientError(w) ==
    /\ worker[w].pc = "fetch"
    /\ CheckOuterExcept(w)
    /\ UNCHANGED <<clock, account, plan, mailbox, reviews, execs, delays,
                   dispatched, wf, svc>>
    /\ UseFault

\* gmail_client = GmailClient(account): TokenEncryption() raises ValueError
\* when TOKEN_ENCRYPTION_KEY is not configured; it reaches the outer handler
CheckConfigError(w) ==
    /\ worker[w].pc = "fetch"
    /\ CheckOuterExcept(w)
    /\ UNCHANGED <<clock, account, plan, mailbox, reviews, execs, delays,
                   dispatched, wf, svc>>
    /\ UseFault

\* variant: the duplicate check is inverted (if not existing: continue)
ProcessCheck_Inverted(w) ==
    /\ worker[w].pc = "loop"
    /\ worker[w].idx <= Len(worker[w].page)
    /\ LET m == worker[w].page[worker[w].idx]
       IN  IF worker[w].poisoned
           THEN worker' = [worker EXCEPT ![w].errors = @ + 1,
                                         ![w].idx = @ + 1]
           ELSE IF ~(\E r \in Visible(w) : r.message_id = m)
           THEN worker' = [worker EXCEPT ![w].idx = @ + 1]
           ELSE worker' = [worker EXCEPT ![w].pc = "insert"]
    /\ UNCHANGED <<clock, account, plan, mailbox, reviews, queue, result,
                   execs, delays, dispatched, wf, svc, faults>>

\* for message in messages: the duplicate check
ProcessCheck(w) ==
    /\ worker[w].pc = "loop"
    /\ worker[w].idx <= Len(worker[w].page)
    /\ LET m == worker[w].page[worker[w].idx]
       IN  IF worker[w].poisoned
           THEN \* the session refuses to execute after a failed flush
                worker' = [worker EXCEPT ![w].errors = @ + 1,
                                         ![w].idx = @ + 1]
           ELSE IF \E r \in Visible(w) : r.message_id = m
           THEN worker' = [worker EXCEPT ![w].idx = @ + 1]
           ELSE worker' = [worker EXCEPT ![w].pc = "insert"]
    /\ UNCHANGED <<clock, account, plan, mailbox, reviews, queue, result,
                   execs, delays, dispatched, wf, svc, faults>>

\* db.add(review); db.flush() fails: the transaction is rolled back and the
\* session stays unusable; except Exception: errors.append(...); continue
\* conflict: the flush failed on the unique index (counted in conflicts)
FlushFailed(w, conflict) ==
    worker' = [worker EXCEPT ![w].pc = "loop", ![w].idx = @ + 1,
                             ![w].pending = {}, ![w].poisoned = TRUE,
                             ![w].errors = @ + 1,
                             ![w].conflicts = IF conflict THEN @ + 1 ELSE @]

\* db.add(review); db.flush(); analyze_review.delay(str(review.id))
\* delayOk: the broker accepted the analysis task
ProcessInsert(w, delayOk) ==
    /\ worker[w].pc = "insert"
    /\ LET m == worker[w].page[worker[w].idx]
           rid == ReviewId(worker[w].id, worker[w].retries, m)
       IN  IF UniqueViolation(m)
           THEN /\ delayOk
                /\ FlushFailed(w, TRUE)
                /\ UNCHANGED <<queue, delays>>
           ELSE /\ ~UniqueWait(w, m)
                /\ worker' = [worker EXCEPT
                       ![w].pc = "loop", ![w].idx = @ + 1,
                       ![w].pending = @ \cup {NewReview(rid, m)},
                       ![w].new_emails = @ + 1,
                       ![w].errors = IF delayOk THEN @ ELSE @ + 1]
                /\ IF delayOk
                   THEN /\ queue' = Enqueue(queue, Msg(AnalyzeId(rid), 0))
                        /\ delays' = Bump(delays, AnalyzeId(rid))
                   ELSE UNCHANGED <<queue, delays>>
    /\ UNCHANGED <<clock, account, plan, mailbox, reviews, result, execs,
                   dispatched, wf, svc>>

ProcessInsertOk(w) ==
    /\ ProcessInsert(w, TRUE)
    /\ UNCHANGED faults

\* the broker refuses the analysis task
ProcessInsertDelayFails(w) ==
    /\ worker[w].pc = "insert"
    /\ ~UniqueViolation(worker[w].page[worker[w].idx])
    /\ ProcessInsert(w, FALSE)
    /\ UseFault

\* the database rejects the row of a malformed message
ProcessInsertRejected(w) ==
    /\ worker[w].pc = "insert"
    /\ ~UniqueViolation(worker[w].page[worker[w].idx])
    /\ ~UniqueWait(w, worker[w].page[worker[w].idx])
    /\ FlushFailed(w, FALSE)
    /\ UNCHANGED <<clock, account, plan, mailbox, reviews, queue, result,
                   execs, delays, dispatched, wf, svc>>
    /\ UseFault

\* account.last_checked_at = datetime.now(timezone.utc)
Stamp(w) ==
    /\ worker[w].pc = "loop"
    /\ worker[w].idx > Len(worker[w].page)
    /\ worker' = [worker EXCEPT ![w].pc = "commit", ![w].now = clock]
    /\ UNCHANGED <<clock, account, plan, mailbox, reviews, queue, result,
                   execs, delays, dispatched, wf, svc, faults>>

\* variant: the checkpoint is saved even when the commit of the page fails
CommitRun_CheckpointAlways(w) ==
    /\ worker[w].pc = "commit"
    /\ account' = [account EXCEPT !.last_checked_at = worker[w].now]
    /\ IF worker[w].poisoned
       THEN /\ CheckOuterExcept(w)
            /\ UNCHANGED reviews
       ELSE /\ reviews' = reviews \cup worker[w].pending
            /\ worker' = [worker EXCEPT ![w] = IdleW]
            /\ result' = SetResult(result, worker[w].id,
                   RunResult("SUCCESS", "ok", Len(worker[w].page),
                             worker[w].new_emails, worker[w].errors))
            /\ UNCHANGED queue
    /\ UNCHANGED <<clock, plan, mailbox, execs, delays, dispatched,
                  wf, svc, faults>>

\* db.commit() at the end of the page and the return of the result
CommitRun(w) ==
    /\ worker[w].pc = "commit"
    /\ IF worker[w].poisoned
       THEN \* commit raises on the unusable session
            /\ CheckOuterExcept(w)
            /\ UNCHANGED <<account, reviews>>
       ELSE /\ reviews' = reviews \cup worker[w].pending
            /\ account' = [account EXCEPT !.last_checked_at = worker[w].now]
            /\ worker' = [worker EXCEPT ![w] = IdleW]
            /\ result' = SetResult(result, worker[w].id,
                   RunResult("SUCCESS", "ok", Len(worker[w].page),
                             worker[w].new_emails, worker[w].errors))
            /\ UNCHANGED queue
    /\ UNCHANGED <<clock, plan, mailbox, execs, delays, dispatched,
                  wf, svc, faults>>

\* the worker process dies while executing a task: the open transaction is
\* rolled back and the message, acknowledged on receipt, is gone
Crash(w) ==
    /\ worker[w].pc # "idle"
    /\ worker' = [worker EXCEPT ![w] = IdleW]
    /\ UNCHANGED <<clock, account, plan, mailbox, reviews, queue, result,
                   execs, delays, dispatched, wf, svc>>
    /\ UseFault

\* ------------------------------------------------------------------------
\* ReviewAnalyzer: the analysis workflow
\* ------------------------------------------------------------------------
\* What the LLM call of a stage produces: a parsed value, a value the stage
\* does not accept ("invalid"), or an exception ("error").
RawSentiment == Sentiments \cup {"invalid", "error"}
RawList == {"empty", "some", "invalid", "error"}
RawSummary == {"text", "empty", "error"}
RawPriority == Priorities \cup {"invalid", "error"}
RawName == {"name", "null", "error"}
RawResponse == {"true", "false", "invalid", "error"}

RawOutcomes ==
    [sentiment : RawSentiment, problems : RawList, suggestions : RawList,
     summary : RawSummary, priority : RawPriority, customer_name : RawName,
     requires_response : RawResponse]

\* AnalysisState(review_text=..., subject=...)
InitialState ==
    [sentiment |-> "None", problems |-> "empty", suggestions |-> "empty",
     summary |-> "", priority |-> "None", customer_name |-> "None",
     requires_response |-> FALSE, error |-> FALSE, trace |-> <<>>]

Visit(st, node) == [st EXCEPT !.trace = Append(@, node)]

_preprocess(st) == Visit(st, "preprocess")

_classify_sentiment(st, raw) ==
    LET s == Visit(st, "classify_sentiment")
    IN  IF raw = "error"
        THEN [s EXCEPT !.sentiment = "neutral", !.error = TRUE]
        ELSE [s EXCEPT !.sentiment = IF raw \in Sentiments THEN raw
                                     ELSE "neutral"]

_extract_problems(st, raw) ==
    LET s == Visit(st, "extract_problems")
    IN  [s EXCEPT !.problems = IF raw = "some" THEN "some" ELSE "empty"]

_extract_suggestions(st, raw) ==
    LET s == Visit(st, "extract_suggestions")
    IN  [s EXCEPT !.suggestions = IF raw = "some" THEN "some" ELSE "empty"]

_summarize(st, raw) ==
    LET s == Visit(st, "summarize")
    IN  [s EXCEPT !.summary = IF raw = "text" THEN "llm" ELSE "truncated"]

\* variant: no escalation of negative reviews
_prioritize_NoEscalation(st, raw) ==
    LET s == Visit(st, "prioritize")
    IN  IF raw = "error"
        THEN [s EXCEPT !.priority = "normal"]
        ELSE [s EXCEPT !.priority = IF raw \in Priorities THEN raw
                                    ELSE "normal"]

_prioritize(st, raw) ==
    LET s == Visit(st, "prioritize")
    IN  IF raw = "error"
        THEN [s EXCEPT !.priority = IF st.sentiment = "negative"
                                    THEN "important" ELSE "normal"]
        ELSE LET p == IF raw \in Priorities THEN raw ELSE "normal"
             IN  [s EXCEPT !.priority =
                     IF st.sentiment = "negative" /\ p = "normal"
                     THEN "important" ELSE p]

_extract_name(st, raw) ==
    LET s == Visit(st, "extract_name")
    IN  [s EXCEPT !.customer_name = IF raw = "name" THEN "name" ELSE "None"]

_decide_response(st, raw) ==
    LET s == Visit(st, "decide_response")
    IN  IF raw = "error"
        THEN [s EXCEPT !.requires_response = (st.sentiment = "negative")]
        ELSE LET r == IF raw \in {"true", "false"} THEN raw = "true"
                      ELSE TRUE
             IN  [s EXCEPT !.requires_response =
                     IF st.sentiment = "negative" \/ st.priority = "critical"
                     THEN TRUE ELSE r]

\* the compiled graph: preprocess -> ... -> decide_response -> END
\* variant: a conditional edge ends the workflow once a stage set error
GraphInvoke_AbortOnError(raw) ==
    LET s1 == _preprocess(InitialState)
        s2 == _classify_sentiment(s1, raw.sentiment)
        s3 == _extract_problems(s2, raw.problems)
        s4 == _extract_suggestions(s3, raw.suggestions)
        s5 == _summarize(s4, raw.summary)
        s6 == _prioritize(s5, raw.priority)
        s7 == _extract_name(s6, raw.customer_name)
    IN  IF s2.error THEN s2 ELSE _decide_response(s7, raw.requires_response)

\* the compiled graph: entry point preprocess, one edge from each node to
\* the next, decide_response -> END
GraphInvoke(raw) ==
    LET s1 == _preprocess(InitialState)
        s2 == _classify_sentiment(s1, raw.sentiment)
        s3 == _extract_problems(s2, raw.problems)
        s4 == _extract_suggestions(s3, raw.suggestions)
        s5 == _summarize(s4, raw.summary)
        s6 == _prioritize(s5, raw.priority)
        s7 == _extract_name(s6, raw.customer_name)
    IN  _decide_response(s7, raw.requires_response)

ReviewAnalysis(st, depth) ==
    [sentiment |-> st.sentiment, priority |-> st.priority,
     summary |-> st.summary, problems |-> st.problems,
     suggestions |-> st.suggestions, customer_name |-> st.customer_name,
     requires_response |-> st.requires_response, depth |-> depth]

analyze(raw) == ReviewAnalysis(GraphInvoke(raw), "full")

analyze_basic(raw) ==
    LET sentiment == IF raw.sentiment \in Sentiments THEN raw.sentiment
                     ELSE "neutral"
    IN  [sentiment |-> sentiment,
         priority |-> IF sentiment = "negative" THEN "important" ELSE "normal",
         summary |-> "truncated", problems |-> "empty",
         suggestions |-> "empty", customer_name |-> "None",
         requires_response |-> (sentiment = "negative"), depth |-> "basic"]

\* ------------------------------------------------------------------------
\* analyze_review
\* ------------------------------------------------------------------------
ErrLens == {0, ErrNoteMax - 1, ErrNoteMax, ErrNoteMax + 1}

\* f"[Analysis failed: {str(e)[:200]}]"
FailureNote(errLen) == [kind |-> "failed", len |-> Min(errLen, ErrNoteMax)]

NotifyId(rid) == <<"notify", rid[2], rid[3], rid[4]>>
DraftsId(rid) == <<"drafts", rid[2], rid[3], rid[4]>>

\* UPDATE reviews SET ... WHERE id = rid, committed
UpdateReview(rid, sentiment, priority, summary, at) ==
    {IF r.id = rid
     THEN [r EXCEPT !.sentiment = sentiment, !.priority = priority,
                    !.summary = summary, !.is_processed = TRUE,
                    !.processed_at = at]
     ELSE r : r \in reviews}

\* UPDATE reviews SET is_processed, processed_at, summary WHERE id = rid
MarkFailed(rid, errLen, at) ==
    {IF r.id = rid
     THEN [r EXCEPT !.summary = FailureNote(errLen), !.is_processed = TRUE,
                    !.processed_at = at]
     ELSE r : r \in reviews}

\* the outer handler of analyze_review:
\*   except MaxRetriesExceededError: raise
\*   except Exception as e: try: raise self.retry(exc=e, countdown=60)
\*                          except MaxRetriesExceededError: return {...}
\* entered with the exception raised in the body; q: the broker by then
AnalyzeOuterExcept(w, q, raised) ==
    IF raised = "MaxRetriesExceededError"
    THEN /\ queue' = q
         /\ EndTask(w, "FAILURE", "raised")
    ELSE /\ queue' = RetryQueue(q, w, AnalyzeMaxRetries)
         /\ worker' = [worker EXCEPT ![w] = IdleW]
         /\ result' = SetResult(result, worker[w].id,
                                RetryResult(worker[w].retries, AnalyzeMaxRetries))

\* variant: the is_processed check is missing
AnalyzeStart_NoProcessedCheck(w) ==
    /\ worker[w].pc = "idle"
    /\ \E msg \in BagToSet(queue) :
        /\ msg.id[1] = "analyze"
        /\ queue' = Dequeue(queue, msg)
        /\ execs' = Bump(execs, msg.id)
        /\ IF ~\E r \in reviews : r.id = ReviewOf(msg.id)
           THEN /\ result' = SetResult(result, msg.id,
                                       TaskResult("SUCCESS", "not_found"))
                /\ UNCHANGED worker
           ELSE IF ~account.exists
           THEN /\ result' = SetResult(result, msg.id,
                                       TaskResult("SUCCESS", "no_account"))
                /\ UNCHANGED worker
           ELSE /\ result' = SetResult(result, msg.id,
                                       TaskResult("STARTED", "none"))
                /\ worker' = [worker EXCEPT ![w] =
                       [IdleW EXCEPT !.pc = "details", !.id = msg.id,
                                     !.retries = msg.retries]]
    /\ UNCHANGED <<clock, account, plan, mailbox, reviews, delays,
                   dispatched, wf, svc, faults>>

\* a worker takes an analysis task from the broker and loads the review,
\* its account and the owner
AnalyzeStart(w) ==
    /\ worker[w].pc = "idle"
    /\ \E msg \in BagToSet(queue) :
        /\ msg.id[1] = "analyze"
        /\ queue' = Dequeue(queue, msg)
        /\ execs' = Bump(execs, msg.id)
        /\ IF ~\E r \in reviews : r.id = ReviewOf(msg.id)
           THEN /\ result' = SetResult(result, msg.id,
                                       TaskResult("SUCCESS", "not_found"))
                /\ UNCHANGED worker
           ELSE IF \E r \in reviews : r.id = ReviewOf(msg.id) /\ r.is_processed
           THEN /\ result' = SetResult(result, msg.id,
                                       TaskResult("SUCCESS", "already"))
                /\ UNCHANGED worker
           ELSE IF ~account.exists
           THEN /\ result' = SetResult(result, msg.id,
                                       TaskResult("SUCCESS", "no_account"))
                /\ UNCHANGED worker
           ELSE /\ result' = SetResult(result, msg.id,
                                       TaskResult("STARTED", "none"))
                /\ worker' = [worker EXCEPT ![w] =
                       [IdleW EXCEPT !.pc = "details", !.id = msg.id,
                                     !.retries = msg.retries]]
    /\ UNCHANGED <<clock, account, plan, mailbox, reviews, delays,
                   dispatched, wf, svc, faults>>

\* gmail_client.get_message_details(review.message_id) succeeds
AnalyzeDetailsOk(w) ==
    /\ worker[w].pc = "details"
    /\ worker' = [worker EXCEPT ![w].pc = "analyze"]
    /\ UNCHANGED <<clock, account, plan, mailbox, reviews, queue, result,
                   execs, delays, dispatched, wf, svc, faults>>

\* variant: the auth error ends the task and leaves the account active
AnalyzeDetailsAuthError_StaysActive(w) ==
    /\ worker[w].pc = "details"
    /\ EndTask(w, "SUCCESS", "auth")
    /\ UNCHANGED <<clock, account, plan, mailbox, reviews, queue, execs,
                   delays, dispatched, wf, svc>>
    /\ UseFault

\* except GmailAuthError: email_account.is_active = False; db.commit()
AnalyzeDetailsAuthError(w) ==
    /\ worker[w].pc = "details"
    /\ account' = [account EXCEPT !.is_active = FALSE]
    /\ EndTask(w, "SUCCESS", "auth")
    /\ UNCHANGED <<clock, plan, mailbox, reviews, queue, execs, delays,
                   dispatched, wf, svc>>
    /\ UseFault

\* except GmailClientError as e: raise self.retry(exc=e, countdown=60);
\* what self.retry raises goes through the outer handler
AnalyzeDetailsClientError(w) ==
    /\ worker[w].pc = "details"
    /\ AnalyzeOuterExcept(w, RetryQueue(queue, w, AnalyzeMaxRetries),
           RetryOutcome(worker[w].retries, AnalyzeMaxRetries, TRUE))
    /\ UNCHANGED <<clock, account, plan, mailbox, reviews, execs, delays,
                   dispatched, wf, svc>>
    /\ UseFault

\* GmailClient(email_account): TokenEncryption() raises ValueError when
\* TOKEN_ENCRYPTION_KEY is not configured; neither except clause of step 3
\* matches and it reaches the outer handler
AnalyzeDetailsConfigError(w) ==
    /\ worker[w].pc = "details"
    /\ AnalyzeOuterExcept(w, queue, "exc")
    /\ UNCHANGED <<clock, account, plan, mailbox, reviews, execs, delays,
                   dispatched, wf, svc>>
    /\ UseFault

\* except ValueError: the analyzer is not configured
AnalyzeConfigError(w) ==
    /\ worker[w].pc = "analyze"
    /\ EndTask(w, "SUCCESS", "config")
    /\ UNCHANGED <<clock, account, plan, mailbox, reviews, queue, execs,
                   delays, dispatched, wf, svc>>
    /\ UseFault

\* except Exception as e: try: raise self.retry(exc=e, countdown=60)
\*                        except MaxRetriesExceededError: mark as failed
AnalyzeException(w, errLen) ==
    /\ worker[w].pc = "analyze"
    /\ LET o == RetryOutcome(worker[w].retries, AnalyzeMaxRetries, TRUE)
       IN  IF o = "MaxRetriesExceededError"
           THEN /\ reviews' = MarkFailed(ReviewOf(worker[w].id), errLen, clock)
                /\ EndTask(w, "SUCCESS", "analysis_failed")
                /\ UNCHANGED queue
           ELSE /\ AnalyzeOuterExcept(w,
                       RetryQueue(queue, w, AnalyzeMaxRetries), o)
                /\ UNCHANGED reviews
    /\ UNCHANGED <<clock, account, plan, mailbox, execs, delays,
                   dispatched, wf, svc>>
    /\ UseFault

\* variant: the full analysis is run for every plan
AnalyzeSave_AlwaysFull(w, raw) ==
    /\ worker[w].pc = "analyze"
    /\ LET analysis == analyze(raw)
       IN  /\ reviews' = UpdateReview(ReviewOf(worker[w].id),
                             analysis.sentiment, analysis.priority,
                             [kind |-> analysis.summary, len |-> 0], clock)
           /\ worker' = [worker EXCEPT ![w].pc = "fanout",
                                       ![w].analysis = analysis]
    /\ UNCHANGED <<clock, account, plan, mailbox, queue, result, execs,
                   delays, dispatched, wf, svc, faults>>

\* steps 4 and 5: run the analysis at the depth of the plan, save, commit
AnalyzeSave(w, raw) ==
    /\ worker[w].pc = "analyze"
    /\ LET analysis == IF plan # "free" THEN analyze(raw)
                       ELSE analyze_basic(raw)
       IN  /\ reviews' = UpdateReview(ReviewOf(worker[w].id),
                             analysis.sentiment, analysis.priority,
                             [kind |-> analysis.summary, len |-> 0], clock)
           /\ worker' = [worker EXCEPT ![w].pc = "fanout",
                                       ![w].analysis = analysis]
    /\ UNCHANGED <<clock, account, plan, mailbox, queue, result, execs,
                   delays, dispatched, wf, svc, faults>>

\* variant: only a negative sentiment triggers the notification
AnalyzeFanout_NegativeOnly(w) ==
    /\ worker[w].pc = "fanout"
    /\ LET rid == ReviewOf(worker[w].id)
           a == worker[w].analysis
           notify == a.sentiment = "negative"
           drafts == plan # "free"
           q1 == IF notify THEN Enqueue(queue, Msg(NotifyId(rid), 0)) ELSE queue
           d1 == IF notify THEN Bump(delays, NotifyId(rid)) ELSE delays
       IN  /\ queue' = IF drafts THEN Enqueue(q1, Msg(DraftsId(rid), 0)) ELSE q1
           /\ delays' = IF drafts THEN Bump(d1, DraftsId(rid)) ELSE d1
    /\ EndTask(w, "SUCCESS", "ok")
    /\ UNCHANGED <<clock, account, plan, mailbox, reviews, execs,
                   dispatched, wf, svc, faults>>

\* steps 6 and 7: send_notification.delay, generate_response_drafts.delay
AnalyzeFanout(w) ==
    /\ worker[w].pc = "fanout"
    /\ LET rid == ReviewOf(worker[w].id)
           a == worker[w].analysis
           notify == a.sentiment = "negative" \/ a.priority = "critical"
           drafts == plan # "free"
           q1 == IF notify THEN Enqueue(queue, Msg(NotifyId(rid), 0)) ELSE queue
           d1 == IF notify THEN Bump(delays, NotifyId(rid)) ELSE delays
       IN  /\ queue' = IF drafts THEN Enqueue(q1, Msg(DraftsId(rid), 0)) ELSE q1
           /\ delays' = IF drafts THEN Bump(d1, DraftsId(rid)) ELSE d1
    /\ EndTask(w, "SUCCESS", "ok")
    /\ UNCHANGED <<clock, account, plan, mailbox, reviews, execs,
                   dispatched, wf, svc, faults>>

\* ------------------------------------------------------------------------
\* NotificationService
\* ------------------------------------------------------------------------
ChannelNames == {"email", "telegram", "sms"}

PLAN_CHANNELS(p) ==
    CASE p = "free" -> {"email"}
      [] p = "starter" -> {"email", "telegram"}
      [] p = "professional" -> {"email", "telegram", "sms"}
      [] p = "enterprise" -> {"email", "telegram", "sms"}

get_available_channels(p) == PLAN_CHANNELS(p)

\* variant: the plan is not consulted
get_enabled_channels_AnyPlan(p, has, st, configured) ==
    IF ~has
    THEN (IF "email" \in configured THEN <<"email">> ELSE <<>>)
    ELSE (IF st.email_enabled /\ "email" \in configured
          THEN <<"email">> ELSE <<>>)
         \o (IF /\ st.telegram_enabled /\ st.telegram_chat_id
                 /\ "telegram" \in configured
              THEN <<"telegram">> ELSE <<>>)
         \o (IF st.sms_enabled /\ st.phone_number /\ "sms" \in configured
              THEN <<"sms">> ELSE <<>>)

\* has: the user has a NotificationSettings row; configured: the channels
\* whose is_configured() is true
get_enabled_channels(p, has, st, configured) ==
    IF ~has
    THEN (IF "email" \in configured THEN <<"email">> ELSE <<>>)
    ELSE LET available == get_available_channels(p)
             email == IF /\ "email" \in available /\ st.email_enabled
                         /\ "email" \in configured
                      THEN <<"email">> ELSE <<>>
             telegram == IF /\ "telegram" \in available
                            /\ st.telegram_enabled
                            /\ st.telegram_chat_id
                            /\ "telegram" \in configured
                         THEN <<"telegram">> ELSE <<>>
             sms == IF /\ "sms" \in available /\ st.sms_enabled
                       /\ st.phone_number /\ "sms" \in configured
                    THEN <<"sms">> ELSE <<>>
         IN  email \o telegram \o sms

\* variant: the settings row is ignored
should_notify_IgnoresSettings(priority, has, st) ==
    priority \in {"critical", "important"}

should_notify(priority, has, st) ==
    IF ~has
    THEN priority \in {"critical", "important"}
    ELSE CASE priority = "critical" -> st.notify_on_critical
           [] priority = "important" -> st.notify_on_important
           [] priority = "normal" -> st.notify_on_normal
           [] OTHER -> FALSE

\* PriorityType(review.priority) if review.priority else PriorityType.NORMAL
NotifyPriority(priority) == IF priority = "None" THEN "normal" ELSE priority

\* NotificationResult(success, channel, error)
NotificationResult(success, channel, error) ==
    [success |-> success, channel |-> channel, error |-> error]

RECURSIVE CountSuccess(_)
CountSuccess(results) ==
    IF results = <<>> THEN 0
    ELSE (IF Head(results).success THEN 1 ELSE 0) + CountSuccess(Tail(results))

NotificationSummary(total, results) ==
    [total_channels |-> total, successful |-> CountSuccess(results),
     failed |-> Len(results) - CountSuccess(results), results |-> results]

\* variant: no channel at all counts as all successful
all_successful_Vacuous(sm) == sm.successful = sm.total_channels

all_successful(sm) ==
    sm.successful = sm.total_channels /\ sm.total_channels > 0

any_successful(sm) == sm.successful > 0

\* what channel.send does: returns a success result, returns a failure
\* result, or raises
SendOutcomes == {"ok", "fail", "raise"}

\* steps 1 and 2 of send_review_notification: the priority gate and the
\* selection of the channels
NotifyStart ==
    /\ nt.pc = "ready"
    /\ IF ~should_notify(NotifyPriority(nt.priority), nt.has_settings,
                         nt.settings)
       THEN nt' = [nt EXCEPT !.pc = "done", !.notified = FALSE,
                             !.summary = NotificationSummary(0, <<>>)]
       ELSE LET channels == get_enabled_channels(plan, nt.has_settings,
                                                 nt.settings, nt.configured)
            IN  IF channels = <<>>
                THEN nt' = [nt EXCEPT !.pc = "done", !.notified = TRUE,
                                      !.summary = NotificationSummary(0, <<>>)]
                ELSE nt' = [nt EXCEPT !.pc = "send", !.notified = TRUE,
                                      !.channels = channels, !.idx = 1]
    /\ UNCHANGED <<clock, account, plan, mailbox, reviews, queue, result,
                   execs, delays, worker, dispatched, faults,
                   wf, oa, gen, dt, sch, gm>>

\* variant: an exception of channel.send is not caught
NotifySend_Uncaught(outcome) ==
    /\ nt.pc = "send"
    /\ nt.idx <= Len(nt.channels)
    /\ LET c == nt.channels[nt.idx]
           s == Append(nt.sent, [channel |-> c, outcome |-> outcome])
       IN  IF outcome = "raise"
           THEN nt' = [nt EXCEPT !.sent = s, !.pc = "done"]
           ELSE nt' = [nt EXCEPT !.sent = s,
                                 !.results = Append(@,
                                     NotificationResult(outcome = "ok", c,
                                         IF outcome = "ok" THEN "None"
                                         ELSE "text")),
                                 !.idx = @ + 1]
    /\ UNCHANGED <<clock, account, plan, mailbox, reviews, queue, result,
                   execs, delays, worker, dispatched, faults,
                   wf, oa, gen, dt, sch, gm>>

\* step 4, one iteration of: for channel in channels
NotifySend(outcome) ==
    /\ nt.pc = "send"
    /\ nt.idx <= Len(nt.channels)
    /\ LET c == nt.channels[nt.idx]
           r == CASE outcome = "ok" -> NotificationResult(TRUE, c, "None")
                  [] outcome = "fail" -> NotificationResult(FALSE, c, "text")
                  [] outcome = "raise" -> NotificationResult(FALSE, c, "text")
       IN  nt' = [nt EXCEPT !.sent = Append(@, [channel |-> c,
                                                    outcome |-> outcome]),
                            !.results = Append(@, r),
                            !.idx = @ + 1]
    /\ UNCHANGED <<clock, account, plan, mailbox, reviews, queue, result,
                   execs, delays, worker, dispatched, faults,
                   wf, oa, gen, dt, sch, gm>>

\* step 5: the summary
NotifySummary ==
    /\ nt.pc = "send"
    /\ nt.idx > Len(nt.channels)
    /\ nt' = [nt EXCEPT !.pc = "done",
                        !.summary = NotificationSummary(Len(nt.channels),
                                                        nt.results)]
    /\ UNCHANGED <<clock, account, plan, mailbox, reviews, queue, result,
                   execs, delays, worker, dispatched, faults,
                   wf, oa, gen, dt, sch, gm>>

\* ------------------------------------------------------------------------
\* ResponseGenerator
\* ------------------------------------------------------------------------
\* DraftResponseCreate.variant_number: le=3
MaxVariants == 3

Template == [kind |-> "template", k |-> 0]
Ai(k) == [kind |-> "ai", k |-> k]
\* a text longer than DraftResponseCreate.content allows
Oversize(k) == [kind |-> "oversize", k |-> k]

\* what the model call of a variant yields: a usable text, an empty text,
\* an exception, a text that DraftResponseCreate rejects
GenOutcomes == {"text", "empty", "error", "oversize"}

DraftResponseCreate(content, k) == [content |-> content, variant_number |-> k]

\* variant: a variant whose generation raises is skipped
GenerateVariant_SkipsFailed(outcome) ==
    /\ gen.pc = "loop"
    /\ gen.k <= gen.n
    /\ LET k == gen.k
           prev == gen.previous_responses
           prompt == IF k = 1
                     THEN [kind |-> "generation", source |-> NoContent]
                     ELSE IF prev = <<>>
                     THEN [kind |-> "none", source |-> NoContent]
                     ELSE [kind |-> "variant", source |-> prev[Len(prev)]]
           g == [gen EXCEPT !.k = k + 1,
                            !.prompts = Append(@, prompt),
                            !.outcomes = Append(@, outcome)]
       IN  IF prompt.kind = "none" \/ outcome = "error"
           THEN gen' = g
           ELSE IF outcome = "oversize"
           THEN gen' = [g EXCEPT !.previous_responses = Append(@, Oversize(k))]
           ELSE LET c == IF outcome = "text" THEN Ai(k) ELSE Template
                IN  gen' = [g EXCEPT
                        !.previous_responses = Append(@, c),
                        !.drafts = Append(@, DraftResponseCreate(c, k))]
    /\ UNCHANGED <<clock, account, plan, mailbox, reviews, queue, result,
                   execs, delays, worker, dispatched, faults,
                   wf, oa, nt, dt, sch, gm>>

\* one iteration of: for variant_num in range(1, num_variants + 1)
GenerateVariant(outcome) ==
    /\ gen.pc = "loop"
    /\ gen.k <= gen.n
    /\ LET k == gen.k
           prev == gen.previous_responses
           \* previous_responses[-1] raises IndexError on an empty list
           prompt == IF k = 1
                     THEN [kind |-> "generation", source |-> NoContent]
                     ELSE IF prev = <<>>
                     THEN [kind |-> "none", source |-> NoContent]
                     ELSE [kind |-> "variant", source |-> prev[Len(prev)]]
           g == [gen EXCEPT !.k = k + 1,
                            !.prompts = Append(@, prompt),
                            !.outcomes = Append(@, outcome)]
           fallback == DraftResponseCreate(Template, k)
       IN  IF prompt.kind = "none" \/ outcome = "error"
           THEN \* except Exception: the template, previous_responses as is
                gen' = [g EXCEPT !.drafts = Append(@, fallback)]
           ELSE IF outcome = "oversize"
           THEN \* appended to previous_responses, then DraftResponseCreate
                \* raises: except Exception: the template
                gen' = [g EXCEPT
                           !.previous_responses = Append(@, Oversize(k)),
                           !.drafts = Append(@, fallback)]
           ELSE LET c == IF outcome = "text" THEN Ai(k) ELSE Template
                IN  gen' = [g EXCEPT
                        !.previous_responses = Append(@, c),
                        !.drafts = Append(@, DraftResponseCreate(c, k))]
    /\ UNCHANGED <<clock, account, plan, mailbox, reviews, queue, result,
                   execs, delays, worker, dispatched, faults,
                   wf, oa, nt, dt, sch, gm>>

\* return drafts
GenerateReturn ==
    /\ gen.pc = "loop"
    /\ gen.k > gen.n
    /\ gen' = [gen EXCEPT !.pc = "done"]
    /\ UNCHANGED <<clock, account, plan, mailbox, reviews, queue, result,
                   execs, delays, worker, dispatched, faults,
                   wf, oa, nt, dt, sch, gm>>

\* ------------------------------------------------------------------------
\* generate_response_drafts, regenerate_response_drafts
\* ------------------------------------------------------------------------
PLAN_VARIANT_LIMITS(p) ==
    CASE p = "free" -> 0
      [] p = "starter" -> 1
      [] p = "professional" -> 3
      [] p = "enterprise" -> 3

DraftKinds == {"generate", "regenerate"}

\* DraftResponse rows written by the execution t: variants 1..n
DraftRows(t, n) == {[task |-> t, variant_number |-> k] : k \in 1..n}

SetDraftTask(t, st) == [dt EXCEPT !.task[t] = st]

\* variant: the plan limit is read but a limit of 0 is not rejected
CheckDraftPlan_NoReject(t, kind) ==
    dt' = SetDraftTask(t, [dt.task[t] EXCEPT
              !.pc = "select", !.kind = kind,
              !.num_variants = PLAN_VARIANT_LIMITS(plan)])

\* num_variants = PLAN_VARIANT_LIMITS.get(user_plan, 0)
\* if num_variants == 0: return {"success": False, ...}
CheckDraftPlan(t, kind) ==
    LET n == PLAN_VARIANT_LIMITS(plan)
    IN  dt' = SetDraftTask(t, [dt.task[t] EXCEPT
                  !.pc = IF n = 0 THEN "rejected" ELSE "select",
                  !.kind = kind, !.num_variants = n])

\* the task loads the review, the account and the owner and checks the plan
DraftStart(t, kind) ==
    /\ dt.task[t].pc = "idle"
    /\ CheckDraftPlan(t, kind)
    /\ UNCHANGED <<clock, account, plan, mailbox, reviews, queue, result,
                   execs, delays, worker, dispatched, faults,
                   wf, oa, nt, gen, sch, gm>>

RegenId(rid) == <<"regen", rid[2], rid[3], rid[4]>>

\* a worker takes a draft task (generation or regeneration) from the
\* broker, loads the review and checks the plan of the owner
DraftTaken(t) ==
    /\ dt.task[t].pc = "idle"
    /\ \E msg \in BagToSet(queue) :
        /\ msg.id[1] \in {"drafts", "regen"}
        /\ queue' = Dequeue(queue, msg)
        /\ execs' = Bump(execs, msg.id)
        /\ LET kind == IF msg.id[1] = "drafts" THEN "generate"
                        ELSE "regenerate"
               rid == ReviewOf(msg.id)
           IN  IF ~\E r \in reviews : r.id = rid
               THEN dt' = SetDraftTask(t, [dt.task[t] EXCEPT
                              !.pc = "not_found", !.kind = kind])
               ELSE IF /\ kind = "generate"
                       /\ \E r \in reviews : r.id = rid /\ ~r.is_processed
               THEN dt' = SetDraftTask(t, [dt.task[t] EXCEPT
                              !.pc = "not_processed", !.kind = kind])
               ELSE CheckDraftPlan(t, kind)
    /\ UNCHANGED <<clock, account, plan, mailbox, reviews, result, delays,
                   worker, dispatched, faults, wf, oa, nt, gen, sch, gm>>

\* POST /{review_id}/drafts/regenerate: check_drafts_plan, the review is
\* processed, regenerate_response_drafts.delay
regenerate_review_drafts ==
    /\ PLAN_VARIANT_LIMITS(plan) # 0
    /\ \E r \in reviews :
        /\ r.is_processed
        /\ Count(delays, RegenId(r.id)) < MaxRegenerate
        /\ queue' = Enqueue(queue, Msg(RegenId(r.id), 0))
        /\ delays' = Bump(delays, RegenId(r.id))
    /\ UNCHANGED <<clock, account, plan, mailbox, reviews, result, execs,
                   worker, dispatched, faults, wf, svc>>

\* BillingService: the subscription ends, user.plan = PlanType.FREE
_handle_subscription_deleted ==
    /\ plan # "free"
    /\ plan' = "free"
    /\ UNCHANGED <<clock, account, mailbox, reviews, queue, result, execs,
                   delays, worker, dispatched, faults, wf, svc>>

\* select(DraftResponse).where(DraftResponse.review_id == review.id)
DraftSelect(t) ==
    /\ dt.task[t].pc = "select"
    /\ dt' = SetDraftTask(t, [dt.task[t] EXCEPT !.pc = "delete",
                                                !.existing = dt.rows])
    /\ UNCHANGED <<clock, account, plan, mailbox, reviews, queue, result,
                   execs, delays, worker, dispatched, faults,
                   wf, oa, nt, gen, sch, gm>>

\* for draft in existing_drafts: db.delete(draft); db.commit()
DraftDelete(t) ==
    /\ dt.task[t].pc = "delete"
    /\ dt' = [dt EXCEPT !.rows = @ \ dt.task[t].existing,
                        !.task[t].pc = "generate"]
    /\ UNCHANGED <<clock, account, plan, mailbox, reviews, queue, result,
                   execs, delays, worker, dispatched, faults,
                   wf, oa, nt, gen, sch, gm>>

\* generator.generate_responses(...) returns num_variants drafts
DraftGenerateOk(t) ==
    /\ dt.task[t].pc = "generate"
    /\ dt' = SetDraftTask(t, [dt.task[t] EXCEPT
                  !.pc = "save",
                  !.drafts = DraftRows(t, dt.task[t].num_variants)])
    /\ UNCHANGED <<clock, account, plan, mailbox, reviews, queue, result,
                   execs, delays, worker, dispatched, faults,
                   wf, oa, nt, gen, sch, gm>>

\* the generator is not configured or the call raises: the execution ends
DraftGenerateFails(t) ==
    /\ dt.task[t].pc = "generate"
    /\ dt' = SetDraftTask(t, [dt.task[t] EXCEPT !.pc = "failed"])
    /\ UNCHANGED <<clock, account, plan, mailbox, reviews, queue, result,
                   execs, delays, worker, dispatched, faults,
                   wf, oa, nt, gen, sch, gm>>

\* for draft in drafts: db.add(DraftResponse(...)); db.commit(); return
DraftSave(t) ==
    /\ dt.task[t].pc = "save"
    /\ dt' = [dt EXCEPT !.rows = @ \cup dt.task[t].drafts,
                        !.task[t].pc = "done"]
    /\ UNCHANGED <<clock, account, plan, mailbox, reviews, queue, result,
                   execs, delays, worker, dispatched, faults,
                   wf, oa, nt, gen, sch, gm>>

\* ------------------------------------------------------------------------
\* GmailOAuthService
\* ------------------------------------------------------------------------
StateTokens == 1..MaxStateTokens
\* authorization codes of the provider, each redeemable once
Codes == {1, 2}
\* the address the provider reports for the authorizing mailbox
Emails == {"a", "b"}

\* the access token of a refresh (the one of an exchange is its code)
Refreshed == 0

SetCallback(c, st) == [oa EXCEPT !.cb[c] = st]

\* state = secrets.token_urlsafe(32); redis.setex("oauth_state:" + state)
get_authorization_url ==
    /\ oa.issued < MaxStateTokens
    /\ oa' = [oa EXCEPT !.issued = @ + 1, !.redis = @ \cup {oa.issued + 1}]
    /\ UNCHANGED <<clock, account, plan, mailbox, reviews, queue, result,
                   execs, delays, worker, dispatched, faults, wf, nt, gen,
                   dt, sch, gm>>

\* STATE_TOKEN_TTL has passed: Redis drops the key
StateExpires(state) ==
    /\ state \in oa.redis
    /\ oa' = [oa EXCEPT !.redis = @ \ {state}]
    /\ UNCHANGED <<clock, account, plan, mailbox, reviews, queue, result,
                   execs, delays, worker, dispatched, faults, wf, nt, gen,
                   dt, sch, gm>>

\* handle_callback(code, state): state_data_str = await redis.get(state_key)
\* if not state_data_str: raise ValueError("Invalid or expired state token")
CallbackGet(c, state, code) ==
    /\ oa.cb[c].pc = "idle"
    /\ IF state \notin oa.redis
       THEN oa' = SetCallback(c, [oa.cb[c] EXCEPT !.pc = "invalid_state",
                                                  !.state = state,
                                                  !.code = code])
       ELSE oa' = SetCallback(c, [oa.cb[c] EXCEPT !.pc = "delete",
                                                  !.state = state,
                                                  !.code = code])
    /\ UNCHANGED <<clock, account, plan, mailbox, reviews, queue, result,
                   execs, delays, worker, dispatched, faults, wf, nt, gen,
                   dt, sch, gm>>

\* await redis.delete(state_key)
CallbackDelete(c) ==
    /\ oa.cb[c].pc = "delete"
    /\ oa' = [oa EXCEPT !.redis = @ \ {oa.cb[c].state},
                        !.cb[c].pc = "fetch_token"]
    /\ UNCHANGED <<clock, account, plan, mailbox, reviews, queue, result,
                   execs, delays, worker, dispatched, faults, wf, nt, gen,
                   dt, sch, gm>>

\* flow.fetch_token(code=code); email = await self._get_user_email(...)
\* ok: the provider answers the exchange; email: the address it reports
\* ("None": the userinfo call fails); refresh: it returns a refresh token
CallbackFetchToken(c, ok, email, refresh) ==
    /\ oa.cb[c].pc = "fetch_token"
    /\ IF ~ok \/ oa.cb[c].code \in oa.used
       THEN oa' = SetCallback(c, [oa.cb[c] EXCEPT !.pc = "exchange_failed"])
       ELSE oa' = [oa EXCEPT
                !.used = @ \cup {oa.cb[c].code},
                !.cb[c] = IF email = "None"
                          THEN [@ EXCEPT !.pc = "no_email"]
                          ELSE [@ EXCEPT !.pc = "lookup", !.email = email,
                                         !.refresh_token = refresh]]
    /\ UNCHANGED <<clock, account, plan, mailbox, reviews, queue, result,
                   execs, delays, worker, dispatched, faults, wf, nt, gen,
                   dt, sch, gm>>

\* the rows of email_accounts of the owner with this address
_get_account_by_email_and_user(email) ==
    {i \in 1..Len(oa.accounts) : oa.accounts[i].email = email}

\* existing_account = await self._get_account_by_email_and_user(...);
\* scalar_one_or_none raises when more than one row matches
CallbackLookup(c) ==
    /\ oa.cb[c].pc = "lookup"
    /\ LET rows == _get_account_by_email_and_user(oa.cb[c].email)
       IN  IF Cardinality(rows) > 1
           THEN oa' = SetCallback(c, [oa.cb[c] EXCEPT
                          !.pc = "multiple_results"])
           ELSE oa' = SetCallback(c, [oa.cb[c] EXCEPT
                          !.pc = "commit",
                          !.existing = IF rows = {} THEN 0
                                       ELSE CHOOSE i \in rows : TRUE])
    /\ UNCHANGED <<clock, account, plan, mailbox, reviews, queue, result,
                   execs, delays, worker, dispatched, faults, wf, nt, gen,
                   dt, sch, gm>>

\* if existing_account: update it in place; else db.add(EmailAccount(...));
\* await self.db.commit()
CallbackCommit(c) ==
    /\ oa.cb[c].pc = "commit"
    /\ LET cb == oa.cb[c]
           new == [email |-> cb.email, oauth_token |-> cb.code,
                   oauth_refresh_token |-> cb.refresh_token,
                   is_active |-> TRUE]
       IN  IF cb.existing # 0
           THEN oa' = [oa EXCEPT
                    !.accounts[cb.existing] =
                        [@ EXCEPT !.oauth_token = cb.code,
                                  !.oauth_refresh_token =
                                      IF cb.refresh_token THEN TRUE ELSE @,
                                  !.is_active = TRUE],
                    !.cb[c].pc = "done"]
           ELSE oa' = [oa EXCEPT !.accounts = Append(@, new),
                                 !.cb[c].pc = "done"]
    /\ UNCHANGED <<clock, account, plan, mailbox, reviews, queue, result,
                   execs, delays, worker, dispatched, faults, wf, nt, gen,
                   dt, sch, gm>>

\* what the refresh meets: the provider issues a token, the provider
\* rejects the refresh token, the stored refresh token does not decrypt
RefreshOutcomes == {"ok", "rejected", "undecryptable"}

\* refresh_access_token is called for the account row i (by
\* get_credentials when the stored expiry has passed)
RefreshCall(i) ==
    /\ oa.rf.pc # "called"
    /\ i \in 1..Len(oa.accounts)
    /\ oa' = [oa EXCEPT !.rf = [pc |-> "called", row |-> i,
                                outcome |-> "none"]]
    /\ UNCHANGED <<clock, account, plan, mailbox, reviews, queue, result,
                   execs, delays, worker, dispatched, faults, wf, nt, gen,
                   dt, sch, gm>>

\* refresh_access_token(email_account)
refresh_access_token(outcome) ==
    /\ oa.rf.pc = "called"
    /\ LET i == oa.rf.row
           row == oa.accounts[i]
       IN  IF ~row.oauth_refresh_token
           THEN \* raise ValueError("No refresh token available")
                oa' = [oa EXCEPT !.rf.pc = "raised",
                                 !.rf.outcome = "no_refresh_token"]
           ELSE IF outcome = "undecryptable"
           THEN \* self.encryption.decrypt raises ValueError
                oa' = [oa EXCEPT !.rf.pc = "raised",
                                 !.rf.outcome = "undecryptable"]
           ELSE IF outcome = "rejected"
           THEN \* except Exception: is_active = False; commit; raise
                oa' = [oa EXCEPT !.accounts[i].is_active = FALSE,
                                 !.rf.pc = "raised",
                                 !.rf.outcome = "rejected"]
           ELSE oa' = [oa EXCEPT !.accounts[i].oauth_token = Refreshed,
                                 !.rf.pc = "returned",
                                 !.rf.outcome = "ok"]
    /\ UNCHANGED <<clock, account, plan, mailbox, reviews, queue, result,
                   execs, delays, worker, dispatched, faults, wf, nt, gen,
                   dt, sch, gm>>

\* ------------------------------------------------------------------------
\* Specifications
\* ------------------------------------------------------------------------
\* LLM outcomes of the stages whose output analyze_review stores or acts
\* on: every outcome of the sentiment and priority stages
PipelineRaw ==
    [sentiment : RawSentiment, problems : {"empty"}, suggestions : {"empty"},
     summary : {"text"}, priority : RawPriority, customer_name : {"null"},
     requires_response : {"false", "error"}]

\* Ingestion: scheduler, overlapping ingestion runs and a bounded number of
\* environment faults; the analysis tasks stay on the broker.
InitIngest == Fresh /\ plan = "free" /\ faults = MaxFaults

NextIngest ==
    \/ Tick
    \/ \E m \in Messages : Arrive(m)
    \/ schedule_email_checks
    \/ \E w \in Workers : CheckStart(w)
    \/ \E w \in Workers : GetMessagesOk(w)
    \/ \E w \in Workers : GetMessagesPartial(w)
    \/ \E w \in Workers : GetMessagesAuthError(w)
    \/ \E w \in Workers : GetMessagesRetryable(w)
    \/ \E w \in Workers : GetMessagesClientError(w)
    \/ \E w \in Workers : ProcessCheck(w)
    \/ \E w \in Workers : ProcessInsertOk(w)
    \/ \E w \in Workers : ProcessInsertDelayFails(w)
    \/ \E w \in Workers : ProcessInsertRejected(w)
    \/ \E w \in Workers : Stamp(w)
    \/ \E w \in Workers : CommitRun(w)
    \/ \E w \in Workers : Crash(w)

SpecIngest == InitIngest /\ [][NextIngest]_vars

\* Ingestion without environment faults: overlapping runs only.
NextOverlap ==
    \/ Tick
    \/ \E m \in Messages : Arrive(m)
    \/ schedule_email_checks
    \/ \E w \in Workers : CheckStart(w)
    \/ \E w \in Workers : GetMessagesOk(w)
    \/ \E w \in Workers : ProcessCheck(w)
    \/ \E w \in Workers : ProcessInsertOk(w)
    \/ \E w \in Workers : Stamp(w)
    \/ \E w \in Workers : CommitRun(w)

SpecOverlap == InitIngest /\ [][NextOverlap]_vars

\* Overlapping runs on fair workers: a worker that can take or continue a
\* task eventually does.
IngestStep(w) ==
    \/ CheckStart(w)
    \/ GetMessagesOk(w)
    \/ ProcessCheck(w)
    \/ ProcessInsertOk(w)
    \/ Stamp(w)
    \/ CommitRun(w)

FairOverlap == SpecOverlap /\ \A w \in Workers : WF_vars(IngestStep(w))

\* Ingestion against a provider whose listing may fail with a retryable
\* error any number of times.
InitRetry == Fresh /\ plan = "free" /\ faults = Unlimited

NextRetry ==
    \/ Tick
    \/ schedule_email_checks
    \/ \E w \in Workers : CheckStart(w)
    \/ \E w \in Workers : GetMessagesOk(w)
    \/ \E w \in Workers : GetMessagesRetryable(w)
    \/ \E w \in Workers : Stamp(w)
    \/ \E w \in Workers : CommitRun(w)

SpecRetry == InitRetry /\ [][NextRetry]_vars

\* Analysis: the analysis task of a Review that an ingestion run committed,
\* against a provider and an analyzer that may fail any number of times.
FirstReview == ReviewId(CheckId(1), 0, 1)

InitAnalysis ==
    /\ clock = 0
    /\ account = [exists |-> TRUE, is_active |-> TRUE, last_checked_at |-> 0,
                  check_interval_minutes |-> 1]
    /\ plan \in PlanType
    /\ mailbox = [m \in Messages |-> IF m = 1 THEN 0 ELSE None]
    /\ reviews = {NewReview(FirstReview, 1)}
    /\ queue = SetToBag({Msg(AnalyzeId(FirstReview), 0)})
    /\ result = SetResult(<<>>, CheckId(1), RunResult("SUCCESS", "ok", 1, 1, 0))
    /\ execs = Bump(<<>>, CheckId(1))
    /\ delays = Bump(Bump(<<>>, CheckId(1)), AnalyzeId(FirstReview))
    /\ worker = [w \in Workers |-> IdleW]
    /\ dispatched = 1
    /\ faults = MaxAnalysisFaults
    /\ wf = NoWf
    /\ IdleServices

NextAnalysis ==
    \/ Tick
    \/ \E w \in Workers : AnalyzeStart(w)
    \/ \E w \in Workers : AnalyzeDetailsOk(w)
    \/ \E w \in Workers : AnalyzeDetailsAuthError(w)
    \/ \E w \in Workers : AnalyzeDetailsClientError(w)
    \/ \E w \in Workers : AnalyzeConfigError(w)
    \/ \E w \in Workers : \E n \in ErrLens : AnalyzeException(w, n)
    \/ \E w \in Workers : \E raw \in PipelineRaw : AnalyzeSave(w, raw)
    \/ \E w \in Workers : AnalyzeFanout(w)
    \/ \E w \in Workers : Crash(w)

SpecAnalysis == InitAnalysis /\ [][NextAnalysis]_vars

\* The pipeline without environment faults: one ingestion task that the
\* scheduler dispatched, the analysis tasks it enqueues, fair workers.
InitPipeline ==
    /\ clock = 0
    /\ account = [exists |-> TRUE, is_active |-> TRUE, last_checked_at |-> None,
                  check_interval_minutes |-> 1]
    /\ plan \in PlanType
    /\ mailbox = [m \in Messages |-> None]
    /\ reviews = {}
    /\ queue = SetToBag({Msg(CheckId(1), 0)})
    /\ result = <<>>
    /\ execs = <<>>
    /\ delays = Bump(<<>>, CheckId(1))
    /\ worker = [w \in Workers |-> IdleW]
    /\ dispatched = 1
    /\ faults = 0
    /\ wf = NoWf
    /\ IdleServices

NextPipeline ==
    \/ Tick
    \/ \E m \in Messages : Arrive(m)
    \/ \E w \in Workers : CheckStart(w)
    \/ \E w \in Workers : GetMessagesOk(w)
    \/ \E w \in Workers : ProcessCheck(w)
    \/ \E w \in Workers : ProcessInsertOk(w)
    \/ \E w \in Workers : Stamp(w)
    \/ \E w \in Workers : CommitRun(w)
    \/ \E w \in Workers : AnalyzeStart(w)
    \/ \E w \in Workers : AnalyzeDetailsOk(w)
    \/ \E w \in Workers : \E raw \in PipelineRaw : AnalyzeSave(w, raw)
    \/ \E w \in Workers : AnalyzeFanout(w)

SpecPipeline == InitPipeline /\ [][NextPipeline]_vars

FairPipeline == SpecPipeline /\ WF_vars(NextPipeline)

\* The analysis workflow alone: one invocation of analyze or analyze_basic
\* on a review whose model calls answer in any of the ways of RawOutcomes.
InitWorkflow ==
    /\ clock = 0
    /\ account = [exists |-> TRUE, is_active |-> TRUE, last_checked_at |-> None,
                  check_interval_minutes |-> 1]
    /\ plan = "free"
    /\ mailbox = [m \in Messages |-> None]
    /\ reviews = {}
    /\ queue = EmptyBag
    /\ result = <<>>
    /\ execs = <<>>
    /\ delays = <<>>
    /\ worker = [w \in Workers |-> IdleW]
    /\ dispatched = 0
    /\ faults = 0
    /\ \E raw \in RawOutcomes :
         wf = [stage |-> "ready", depth |-> "none", raw |-> raw,
               out |-> NoAnalysis, trace |-> <<>>]
    /\ IdleServices

CallAnalyze ==
    /\ wf.stage = "ready"
    /\ wf' = [wf EXCEPT !.stage = "done", !.depth = "full",
                        !.out = analyze(wf.raw),
                        !.trace = GraphInvoke(wf.raw).trace]
    /\ UNCHANGED <<clock, account, plan, mailbox, reviews, queue, result,
                   execs, delays, worker, dispatched, faults, svc>>

CallAnalyzeBasic ==
    /\ wf.stage = "ready"
    /\ wf' = [wf EXCEPT !.stage = "done", !.depth = "basic",
                        !.out = analyze_basic(wf.raw)]
    /\ UNCHANGED <<clock, account, plan, mailbox, reviews, queue, result,
                   execs, delays, worker, dispatched, faults, svc>>

NextWorkflow == CallAnalyze \/ CallAnalyzeBasic

SpecWorkflow == InitWorkflow /\ [][NextWorkflow]_vars

\* One call of send_review_notification for any owner plan, settings row
\* (or none), channel configuration and review priority.
NotificationSettings ==
    [email_enabled : BOOLEAN, telegram_enabled : BOOLEAN,
     sms_enabled : BOOLEAN, telegram_chat_id : BOOLEAN,
     phone_number : BOOLEAN, notify_on_critical : BOOLEAN,
     notify_on_important : BOOLEAN, notify_on_normal : BOOLEAN]

InitNotify ==
    /\ clock = 0
    /\ account = [exists |-> TRUE, is_active |-> TRUE, last_checked_at |-> None,
                  check_interval_minutes |-> 1]
    /\ plan \in PlanType
    /\ mailbox = [m \in Messages |-> None]
    /\ reviews = {}
    /\ queue = EmptyBag
    /\ result = <<>>
    /\ execs = <<>>
    /\ delays = <<>>
    /\ worker = [w \in Workers |-> IdleW]
    /\ dispatched = 0
    /\ faults = 0
    /\ wf = NoWf
    /\ oa = NoOa
    /\ \E has \in BOOLEAN : \E st \in NotificationSettings :
       \E configured \in SUBSET ChannelNames :
       \E priority \in Priorities \cup {"None"} :
         /\ ~has => st = DefaultSettings
         /\ nt = [NoNt EXCEPT !.pc = "ready", !.has_settings = has,
                              !.settings = st, !.configured = configured,
                              !.priority = priority]
    /\ gen = NoGen
    /\ dt = NoDt
    /\ sch = NoSch
    /\ gm = NoGm

NextNotify ==
    \/ NotifyStart
    \/ \E outcome \in SendOutcomes : NotifySend(outcome)
    \/ NotifySummary

SpecNotify == InitNotify /\ [][NextNotify]_vars

\* One call of generate_responses for 1 to 3 variants, every model call
\* ending in any of GenOutcomes.
InitGenerate ==
    /\ clock = 0
    /\ account = [exists |-> TRUE, is_active |-> TRUE, last_checked_at |-> None,
                  check_interval_minutes |-> 1]
    /\ plan = "professional"
    /\ mailbox = [m \in Messages |-> None]
    /\ reviews = {}
    /\ queue = EmptyBag
    /\ result = <<>>
    /\ execs = <<>>
    /\ delays = <<>>
    /\ worker = [w \in Workers |-> IdleW]
    /\ dispatched = 0
    /\ faults = 0
    /\ wf = NoWf
    /\ oa = NoOa
    /\ nt = NoNt
    /\ dt = NoDt
    /\ sch = NoSch
    /\ gm = NoGm
    /\ \E n \in 1..MaxVariants : gen = [NoGen EXCEPT !.pc = "loop", !.n = n]

NextGenerate ==
    \/ \E outcome \in GenOutcomes : GenerateVariant(outcome)
    \/ GenerateReturn

SpecGenerate == InitGenerate /\ [][NextGenerate]_vars

\* Two draft tasks (generation or regeneration) for one processed review
\* that has the drafts of an earlier generation, or none.
InitDrafts ==
    /\ clock = 0
    /\ account = [exists |-> TRUE, is_active |-> TRUE, last_checked_at |-> None,
                  check_interval_minutes |-> 1]
    /\ plan \in PlanType
    /\ mailbox = [m \in Messages |-> None]
    /\ reviews = {}
    /\ queue = EmptyBag
    /\ result = <<>>
    /\ execs = <<>>
    /\ delays = <<>>
    /\ worker = [w \in Workers |-> IdleW]
    /\ dispatched = 0
    /\ faults = 0
    /\ wf = NoWf
    /\ oa = NoOa
    /\ nt = NoNt
    /\ gen = NoGen
    /\ sch = NoSch
    /\ gm = NoGm
    /\ \E old \in {0, PLAN_VARIANT_LIMITS(plan)} :
         dt = [NoDt EXCEPT !.rows = DraftRows(0, old)]

NextDrafts ==
    \/ \E t \in DraftTasks : \E kind \in DraftKinds : DraftStart(t, kind)
    \/ \E t \in DraftTasks : DraftSelect(t)
    \/ \E t \in DraftTasks : DraftDelete(t)
    \/ \E t \in DraftTasks : DraftGenerateOk(t)
    \/ \E t \in DraftTasks : DraftGenerateFails(t)
    \/ \E t \in DraftTasks : DraftSave(t)

SpecDrafts == InitDrafts /\ [][NextDrafts]_vars

\* The plan gate of draft generation: the analysis of one Review, the draft
\* task it enqueues, a regeneration request, and an owner whose
\* subscription may end at any moment.
InitPlanGate ==
    /\ clock = 0
    /\ account = [exists |-> TRUE, is_active |-> TRUE, last_checked_at |-> 0,
                  check_interval_minutes |-> 1]
    /\ plan \in PlanType
    /\ mailbox = [m \in Messages |-> IF m = 1 THEN 0 ELSE None]
    /\ reviews = {NewReview(FirstReview, 1)}
    /\ queue = SetToBag({Msg(AnalyzeId(FirstReview), 0)})
    /\ result = SetResult(<<>>, CheckId(1), RunResult("SUCCESS", "ok", 1, 1, 0))
    /\ execs = Bump(<<>>, CheckId(1))
    /\ delays = Bump(Bump(<<>>, CheckId(1)), AnalyzeId(FirstReview))
    /\ worker = [w \in Workers |-> IdleW]
    /\ dispatched = 1
    /\ faults = 0
    /\ wf = NoWf
    /\ IdleServices

NextPlanGate ==
    \/ \E w \in Workers : AnalyzeStart(w)
    \/ \E w \in Workers : AnalyzeDetailsOk(w)
    \/ \E w \in Workers : \E raw \in PipelineRaw : AnalyzeSave(w, raw)
    \/ \E w \in Workers : AnalyzeFanout(w)
    \/ regenerate_review_drafts
    \/ _handle_subscription_deleted
    \/ \E t \in DraftTasks : DraftTaken(t)
    \/ \E t \in DraftTasks : DraftSelect(t)
    \/ \E t \in DraftTasks : DraftDelete(t)
    \/ \E t \in DraftTasks : DraftGenerateOk(t)
    \/ \E t \in DraftTasks : DraftGenerateFails(t)
    \/ \E t \in DraftTasks : DraftSave(t)

SpecPlanGate == InitPlanGate /\ [][NextPlanGate]_vars

\* The pipeline against a provider whose calls fail only with the
\* non-retryable client error (an HTTP status that is not 401, 429 or 5xx):
\* one ingestion task and the analysis tasks it enqueues.
InitClientError ==
    /\ clock = 0
    /\ account = [exists |-> TRUE, is_active |-> TRUE, last_checked_at |-> None,
                  check_interval_minutes |-> 1]
    /\ plan \in PlanType
    /\ mailbox = [m \in Messages |-> None]
    /\ reviews = {}
    /\ queue = SetToBag({Msg(CheckId(1), 0)})
    /\ result = <<>>
    /\ execs = <<>>
    /\ delays = Bump(<<>>, CheckId(1))
    /\ worker = [w \in Workers |-> IdleW]
    /\ dispatched = 1
    /\ faults = MaxFaults
    /\ wf = NoWf
    /\ IdleServices

NextClientError ==
    \/ \E m \in Messages : Arrive(m)
    \/ \E w \in Workers : CheckStart(w)
    \/ \E w \in Workers : GetMessagesOk(w)
    \/ \E w \in Workers : GetMessagesClientError(w)
    \/ \E w \in Workers : ProcessCheck(w)
    \/ \E w \in Workers : ProcessInsertOk(w)
    \/ \E w \in Workers : Stamp(w)
    \/ \E w \in Workers : CommitRun(w)
    \/ \E w \in Workers : AnalyzeStart(w)
    \/ \E w \in Workers : AnalyzeDetailsOk(w)
    \/ \E w \in Workers : AnalyzeDetailsClientError(w)
    \/ \E w \in Workers : \E raw \in PipelineRaw : AnalyzeSave(w, raw)
    \/ \E w \in Workers : AnalyzeFanout(w)

SpecClientError == InitClientError /\ [][NextClientError]_vars

\* The pipeline in a deployment whose configuration is incomplete: the
\* token-encryption key or the AI API key may be missing when a task needs
\* it; no other fault happens.
NextConfigError ==
    \/ \E m \in Messages : Arrive(m)
    \/ \E w \in Workers : CheckStart(w)
    \/ \E w \in Workers : CheckConfigError(w)
    \/ \E w \in Workers : GetMessagesOk(w)
    \/ \E w \in Workers : ProcessCheck(w)
    \/ \E w \in Workers : ProcessInsertOk(w)
    \/ \E w \in Workers : Stamp(w)
    \/ \E w \in Workers : CommitRun(w)
    \/ \E w \in Workers : AnalyzeStart(w)
    \/ \E w \in Workers : AnalyzeDetailsOk(w)
    \/ \E w \in Workers : AnalyzeDetailsConfigError(w)
    \/ \E w \in Workers : AnalyzeConfigError(w)
    \/ \E w \in Workers : \E raw \in PipelineRaw : AnalyzeSave(w, raw)
    \/ \E w \in Workers : AnalyzeFanout(w)

SpecConfigError == InitClientError /\ [][NextConfigError]_vars

\* One run of schedule_email_checks over a table of accounts in any state
\* (active or not, never checked or checked at any time, any interval), at
\* any time, the clock running on during the run.
AccountRows ==
    [is_active : BOOLEAN, last_checked_at : {None} \cup 0..MaxClock,
     check_interval_minutes : {1, 2}]

InitSchedule ==
    /\ clock \in 0..MaxClock
    /\ account = [exists |-> TRUE, is_active |-> TRUE, last_checked_at |-> None,
                  check_interval_minutes |-> 1]
    /\ plan = "free"
    /\ mailbox = [m \in Messages |-> None]
    /\ reviews = {}
    /\ queue = EmptyBag
    /\ result = <<>>
    /\ execs = <<>>
    /\ delays = <<>>
    /\ worker = [w \in Workers |-> IdleW]
    /\ dispatched = 0
    /\ faults = 0
    /\ wf = NoWf
    /\ oa = NoOa
    /\ nt = NoNt
    /\ gen = NoGen
    /\ dt = NoDt
    /\ gm = NoGm
    /\ \E rows \in [AccountIds -> AccountRows] :
         sch = [NoSch EXCEPT !.pc = "ready", !.accounts = rows]

NextSchedule ==
    \/ Tick
    \/ ScheduleSelect
    \/ \E accepted \in BOOLEAN : ScheduleDispatch(accepted)
    \/ ScheduleReturn

SpecSchedule == InitSchedule /\ [][NextSchedule]_vars

\* Ingestion of an account that was deactivated (by an auth error or a
\* failed token refresh) or disconnected and deleted, or is still active,
\* after the scheduler dispatched a check task for it.
InitInactive ==
    /\ clock = 0
    /\ \E exists \in BOOLEAN : \E active \in BOOLEAN :
       \E checked \in {None, 0} :
         account = [exists |-> exists, is_active |-> active,
                    last_checked_at |-> checked, check_interval_minutes |-> 1]
    /\ plan = "free"
    /\ mailbox = [m \in Messages |-> IF m = 1 THEN 0 ELSE None]
    /\ reviews = {}
    /\ queue = SetToBag({Msg(CheckId(1), 0)})
    /\ result = <<>>
    /\ execs = <<>>
    /\ delays = Bump(<<>>, CheckId(1))
    /\ worker = [w \in Workers |-> IdleW]
    /\ dispatched = 1
    /\ faults = MaxFaults
    /\ wf = NoWf
    /\ IdleServices

SpecInactive == InitInactive /\ [][NextIngest]_vars

\* One provider HTTP error of any status around the boundaries of the
\* classification (0: no response object), with any reason text.
StatusCodes == {0} \cup 399..431 \cup 498..504 \cup {599, 600}

Reasons == [accessNotConfigured : BOOLEAN, insufficientPermissions : BOOLEAN]

InitHttpError ==
    /\ clock = 0
    /\ account = [exists |-> TRUE, is_active |-> TRUE, last_checked_at |-> None,
                  check_interval_minutes |-> 1]
    /\ plan = "free"
    /\ mailbox = [m \in Messages |-> None]
    /\ reviews = {}
    /\ queue = EmptyBag
    /\ result = <<>>
    /\ execs = <<>>
    /\ delays = <<>>
    /\ worker = [w \in Workers |-> IdleW]
    /\ dispatched = 0
    /\ faults = 0
    /\ wf = NoWf
    /\ oa = NoOa
    /\ nt = NoNt
    /\ gen = NoGen
    /\ dt = NoDt
    /\ sch = NoSch
    /\ \E status \in StatusCodes : \E reason \in Reasons :
         gm = [NoGm EXCEPT !.pc = "error", !.status = status,
                           !.reason = reason]

NextHttpError == HandleHttpError

SpecHttpError == InitHttpError /\ [][NextHttpError]_vars

\* The analysis task of one Review for an owner of any plan, the model
\* calls of the stages answering in any of the ways of RawOutcomes; no
\* fault of the provider or the broker.
InitDepth ==
    /\ clock = 0
    /\ account = [exists |-> TRUE, is_active |-> TRUE, last_checked_at |-> 0,
                  check_interval_minutes |-> 1]
    /\ plan \in PlanType
    /\ mailbox = [m \in Messages |-> IF m = 1 THEN 0 ELSE None]
    /\ reviews = {NewReview(FirstReview, 1)}
    /\ queue = SetToBag({Msg(AnalyzeId(FirstReview), 0)})
    /\ result = SetResult(<<>>, CheckId(1), RunResult("SUCCESS", "ok", 1, 1, 0))
    /\ execs = Bump(<<>>, CheckId(1))
    /\ delays = Bump(Bump(<<>>, CheckId(1)), AnalyzeId(FirstReview))
    /\ worker = [w \in Workers |-> IdleW]
    /\ dispatched = 1
    /\ faults = 0
    /\ wf = NoWf
    /\ IdleServices

NextDepth ==
    \/ \E w \in Workers : AnalyzeStart(w)
    \/ \E w \in Workers : AnalyzeDetailsOk(w)
    \/ \E w \in Workers : \E raw \in RawOutcomes : AnalyzeSave(w, raw)
    \/ \E w \in Workers : AnalyzeFanout(w)

SpecDepth == InitDepth /\ [][NextDepth]_vars

\* The OAuth flow of one owner: authorization requests, state tokens that
\* may expire, and two callbacks that may run concurrently with any state
\* and code.
InitOAuth == Fresh /\ plan = "free" /\ faults = 0

NextOAuth ==
    \/ get_authorization_url
    \/ \E state \in StateTokens : StateExpires(state)
    \/ \E c \in Callbacks : \E state \in StateTokens : \E code \in Codes :
          CallbackGet(c, state, code)
    \/ \E c \in Callbacks : CallbackDelete(c)
    \/ \E c \in Callbacks : \E ok \in BOOLEAN : \E email \in Emails \cup {"None"} :
       \E refresh \in BOOLEAN : CallbackFetchToken(c, ok, email, refresh)
    \/ \E c \in Callbacks : CallbackLookup(c)
    \/ \E c \in Callbacks : CallbackCommit(c)

SpecOAuth == InitOAuth /\ [][NextOAuth]_vars

\* Token refreshes of connected accounts in any state: with or without a
\* stored refresh token, active or not.
OAuthRows ==
    [email : Emails, oauth_token : Codes, oauth_refresh_token : BOOLEAN,
     is_active : BOOLEAN]

InitRefresh ==
    /\ clock = 0
    /\ account = [exists |-> TRUE, is_active |-> TRUE, last_checked_at |-> None,
                  check_interval_minutes |-> 1]
    /\ plan = "free"
    /\ mailbox = [m \in Messages |-> None]
    /\ reviews = {}
    /\ queue = EmptyBag
    /\ result = <<>>
    /\ execs = <<>>
    /\ delays = <<>>
    /\ worker = [w \in Workers |-> IdleW]
    /\ dispatched = 0
    /\ faults = 0
    /\ wf = NoWf
    /\ nt = NoNt
    /\ gen = NoGen
    /\ dt = NoDt
    /\ sch = NoSch
    /\ gm = NoGm
    /\ \E r1, r2 \in OAuthRows :
         /\ r1.email = "a" /\ r2.email = "b"
         /\ oa = [NoOa EXCEPT !.accounts = <<r1, r2>>]

NextRefresh ==
    \/ \E i \in 1..Len(oa.accounts) : RefreshCall(i)
    \/ \E outcome \in RefreshOutcomes : refresh_access_token(outcome)

SpecRefresh == InitRefresh /\ [][NextRefresh]_vars

TypeOK ==
    /\ clock \in 0..MaxClock
    /\ account.is_active \in BOOLEAN
    /\ account.last_checked_at \in {None} \cup 0..MaxClock
    /\ plan \in PlanType
    /\ \A r \in reviews : r.message_id \in Messages
    /\ faults \in {Unlimited} \cup 0..MaxFaults \cup 0..MaxAnalysisFaults

\* ------------------------------------------------------------------------
\* Properties of ingestion
\* ------------------------------------------------------------------------
PageSet(w) == {worker[w].page[i] : i \in 1..Len(worker[w].page)}

\* the step in which the run executed by w commits and returns success
CommittedStep(w) ==
    /\ worker[w].pc = "commit"
    /\ worker[w].id \in DOMAIN result'
    /\ result'[worker[w].id].ret = "ok"

\* C1: a run that completes creates exactly one unprocessed Review for each
\* message of its page that has no Review yet and none for a message that
\* already has one, so that a re-run on the same page creates none.
C1_DedupIdempotence ==
    [][\A w \in Workers : CommittedStep(w) =>
         LET new == reviews' \ reviews
         IN  /\ reviews \subseteq reviews'
             /\ \A m \in PageSet(w) :
                  IF \E r \in reviews : r.message_id = m
                  THEN {r \in new : r.message_id = m} = {}
                  ELSE Cardinality({r \in new : r.message_id = m}) = 1
             /\ \A r \in new : r.message_id \in PageSet(w) /\ ~r.is_processed
      ]_vars

\* one run created Reviews and a later run of a page with messages created none
C1_Witness ==
    \E a, b \in DOMAIN result :
        /\ result[a].ret = "ok" /\ result[a].new >= 1
        /\ result[b].ret = "ok" /\ result[b].fetched >= 1 /\ result[b].new = 0

\* C2: at most one committed Review exists for each (account, message_id)
\* pair, whatever the interleaving of overlapping ingestion runs.
C2_UniqueReviewPerMessage ==
    \A r1, r2 \in reviews : r1.message_id = r2.message_id => r1 = r2

\* two overlapping runs have both passed the existence check for a message
C2_Witness ==
    \E w, v \in Workers :
        /\ w # v
        /\ worker[w].pc = "insert" /\ worker[v].pc = "insert"
        /\ worker[w].page[worker[w].idx] = worker[v].page[worker[v].idx]

\* the step in which a provider call of the fetch of w's run is answered 401
AuthErrorStep(w) ==
    /\ worker[w].pc = "fetch"
    /\ \/ worker'[w].auth401
       \/ /\ worker[w].id \in DOMAIN result'
          /\ result'[worker[w].id].ret = "oauth"

\* C6: when a provider call of the message fetch (the listing or a detail
\* fetch) fails with an authentication error, the run deactivates the
\* account, leaves last_checked_at unchanged and ends without a retry.
C6_AuthErrorDeactivates ==
    [][\A w \in Workers : AuthErrorStep(w) =>
         /\ ~account'.is_active
         /\ account'.last_checked_at = account.last_checked_at
         /\ worker'[w].pc = "idle"
         /\ queue' = queue
      ]_vars

\* C7: last_checked_at is written only by the commit that ends a run, after
\* every message of the page has been handled, and to the time that run
\* read; a run that stops before leaves it as it was.
C7_CheckpointOncePerRun ==
    [][account'.last_checked_at # account.last_checked_at =>
         \E w \in Workers :
             /\ CommittedStep(w)
             /\ worker[w].idx > Len(worker[w].page)
             /\ worker'[w].pc = "idle"
             /\ account'.last_checked_at = worker[w].now
      ]_vars

\* a run of a page with messages has advanced the checkpoint
C7_Witness ==
    /\ account.last_checked_at # None
    /\ \E a \in DOMAIN result : result[a].ret = "ok" /\ result[a].fetched >= 1

\* the run that inserted a Review is still executing
InProgress(rid) ==
    \E w \in Workers : \E r \in worker[w].pending : r.id = rid

\* C8: exactly one analysis task is enqueued for each committed Review, and
\* every enqueued analysis task refers to a Review that is committed (or
\* whose run has not ended yet).
C8_OneAnalysisPerReview ==
    /\ \A r \in reviews : Count(delays, AnalyzeId(r.id)) = 1
    /\ \A id \in DOMAIN delays :
          id[1] = "analyze" =>
              /\ delays[id] = 1
              /\ \/ \E r \in reviews : r.id = ReviewOf(id)
                 \/ InProgress(ReviewOf(id))

\* ------------------------------------------------------------------------
\* Properties of the retry policy and of the analysis task
\* ------------------------------------------------------------------------
Queued(id) == \E msg \in BagToSet(queue) : msg.id = id
Running(id) == \E w \in Workers : worker[w].id = id

\* C5: a check task whose listing keeps raising a retryable error is
\* executed max_retries + 1 = 6 times, is then recorded as failed and is
\* never on the broker again.
C5_RetryBound ==
    \A id \in DOMAIN execs :
        id[1] = "check" =>
            /\ execs[id] <= CheckMaxRetries + 1
            /\ \A msg \in BagToSet(queue) :
                  msg.id = id => /\ msg.retries <= CheckMaxRetries
                                 /\ CopiesIn(msg, queue) = 1
            /\ (id \in DOMAIN result /\ result[id].state = "FAILURE") =>
                  /\ execs[id] = CheckMaxRetries + 1
                  /\ ~Queued(id)
                  /\ ~Running(id)
            /\ (execs[id] = CheckMaxRetries + 1 /\ ~Running(id)) =>
                  /\ ~Queued(id)
                  /\ result[id].state \in {"FAILURE", "SUCCESS"}

\* a check task failed for good
C5_Witness ==
    \E id \in DOMAIN result :
        /\ id[1] = "check"
        /\ result[id].state = "FAILURE"
        /\ execs[id] = CheckMaxRetries + 1

\* the step in which the execution by w of an analysis task that has no
\* retry left ends on a failure of the provider call or of the analysis
ExhaustedStep(w) ==
    /\ worker[w].pc \in {"details", "analyze"}
    /\ worker[w].retries = AnalyzeMaxRetries
    /\ worker[w].id \in DOMAIN result'
    /\ result'[worker[w].id].ret \in {"raised", "max_retries", "analysis_failed"}

\* C4: when analyze_review has used all its retries and the analysis failed
\* again, the Review (no analysis of it was saved) is processed,
\* processed_at is set and the summary holds the failure note with at most
\* 200 characters of the error text.
C4_ExhaustedMarksProcessed ==
    [][\A w \in Workers : ExhaustedStep(w) =>
         \A r \in reviews' :
             (r.id = ReviewOf(worker[w].id) /\ r.sentiment = "None") =>
                 /\ r.is_processed
                 /\ r.processed_at # None
                 /\ r.summary.kind = "failed"
                 /\ r.summary.len <= ErrNoteMax
      ]_vars

\* C9: a stored Review with negative sentiment has priority important or
\* critical, never normal, at full and at basic depth.
C9_NegativeEscalated ==
    \A r \in reviews :
        r.sentiment = "negative" => r.priority \in {"important", "critical"}

\* a full analysis with negative sentiment was stored as important
C9_Witness ==
    \E w \in Workers :
        /\ worker[w].pc = "fanout"
        /\ worker[w].analysis.depth = "full"
        /\ worker[w].analysis.sentiment = "negative"
        /\ \E r \in reviews : /\ r.id = ReviewOf(worker[w].id)
                              /\ r.sentiment = "negative"
                              /\ r.priority = "important"

\* ------------------------------------------------------------------------
\* Properties of the pipeline
\* ------------------------------------------------------------------------
HasReview(m) == \E r \in reviews : r.message_id = m
HasProcessedReview(m) == \E r \in reviews : r.message_id = m /\ r.is_processed

\* C3: every Review an ingestion run created is eventually marked
\* processed, for every interleaving of the run with the analysis task it
\* enqueued, workers being scheduled fairly.
C3_EveryReviewProcessed ==
    \A m \in Messages : HasReview(m) ~> HasProcessedReview(m)

\* ------------------------------------------------------------------------
\* Properties of the analysis workflow
\* ------------------------------------------------------------------------
\* C10: a result of analyze or analyze_basic with sentiment negative or
\* priority critical has requires_response true, whatever the response
\* stage answered and whether or not it succeeded.
C10_ResponseRequired ==
    (wf.stage = "done" /\ (wf.out.sentiment = "negative"
                           \/ wf.out.priority = "critical"))
        => wf.out.requires_response = TRUE

\* the order of the nodes of the graph
Stages == <<"preprocess", "classify_sentiment", "extract_problems",
            "extract_suggestions", "summarize", "prioritize",
            "extract_name", "decide_response">>

\* every field of a result holds a value of its type
Complete(a) ==
    /\ a.sentiment \in Sentiments
    /\ a.priority \in Priorities
    /\ a.summary \in {"llm", "truncated"}
    /\ a.problems \in {"empty", "some"}
    /\ a.suggestions \in {"empty", "some"}
    /\ a.customer_name \in {"name", "None"}
    /\ a.requires_response \in BOOLEAN

C12_SafeDefaults ==
    (wf.stage = "done" /\ wf.depth = "full") =>
        /\ wf.raw.sentiment = "error" => wf.out.sentiment = "neutral"
        /\ wf.raw.problems = "error" => wf.out.problems = "empty"
        /\ wf.raw.suggestions = "error" => wf.out.suggestions = "empty"
        /\ wf.raw.summary = "error" => wf.out.summary = "truncated"
        /\ wf.raw.priority = "error" =>
              \/ wf.out.priority = "normal"
              \/ wf.out.sentiment = "negative" /\ wf.out.priority = "important"
        /\ wf.raw.customer_name = "error" => wf.out.customer_name = "None"
        /\ wf.raw.requires_response = "error" =>
              wf.out.requires_response = TRUE

\* ------------------------------------------------------------------------
\* Properties of re-invocation
\* ------------------------------------------------------------------------
\* the step in which a worker takes the analysis task id from the broker
\* while the Review it names is processed
ProcessedTaken(id) ==
    /\ id[1] = "analyze"
    /\ Count(execs', id) = Count(execs, id) + 1
    /\ \E r \in reviews : r.id = ReviewOf(id) /\ r.is_processed

\* C13: analyze_review on a processed Review is a no-op: no field of the
\* Review changes, the execution ends at once without a provider or model
\* call, and no notification or draft task is enqueued.
C13_ProcessedIsNoOp ==
    [][\A id \in DOMAIN execs' : ProcessedTaken(id) =>
         /\ reviews' = reviews
         /\ account' = account
         /\ worker' = worker
         /\ delays' = delays
         /\ \A msg \in BagToSet(queue') :
                CopiesIn(msg, queue') <= CopiesIn(msg, queue)
         /\ result'[id].ret = "already"
      ]_vars

\* an analysis task was executed on a processed Review
C13_Witness ==
    \E id \in DOMAIN result :
        /\ id[1] = "analyze"
        /\ result[id].ret = "already"
        /\ \E r \in reviews : r.id = ReviewOf(id) /\ r.is_processed

\* ------------------------------------------------------------------------
\* Properties of notification dispatch
\* ------------------------------------------------------------------------
\* the channels on which send was called
Attempted == {nt.sent[i].channel : i \in 1..Len(nt.sent)}

NotifyFlag ==
    CASE nt.priority = "critical" -> nt.settings.notify_on_critical
      [] nt.priority = "important" -> nt.settings.notify_on_important
      [] OTHER -> nt.settings.notify_on_normal

\* C15: with the notify flag of the review's priority off, no channel is
\* contacted and the summary has total_channels = 0; without a settings row
\* critical and important reviews are notified and normal ones are not.
C15_PriorityGate ==
    nt.pc = "done" =>
        /\ (nt.has_settings /\ ~NotifyFlag) =>
              /\ nt.sent = <<>>
              /\ nt.summary.total_channels = 0
              /\ nt.summary.results = <<>>
        /\ ~nt.has_settings =>
              /\ nt.notified = (nt.priority \in {"critical", "important"})
              /\ ~nt.notified => /\ nt.sent = <<>>
                                 /\ nt.summary.total_channels = 0

\* a critical review was not notified because notify_on_critical is off,
\* although email was enabled and configured
C15_Witness ==
    /\ nt.pc = "done"
    /\ nt.has_settings /\ nt.priority = "critical"
    /\ ~nt.settings.notify_on_critical
    /\ nt.settings.email_enabled /\ "email" \in nt.configured
    /\ nt.sent = <<>>

C17_SummaryConsistent ==
    nt.pc = "done" =>
        LET sm == nt.summary
            ok == {i \in 1..Len(sm.results) : sm.results[i].success}
        IN  /\ sm.successful + sm.failed = sm.total_channels
            /\ sm.total_channels = Len(nt.channels)
            /\ Len(sm.results) = Len(nt.channels)
            /\ sm.successful = Cardinality(ok)
            /\ \A i \in 1..Len(sm.results) :
                  /\ sm.results[i].channel = nt.channels[i]
                  /\ sm.results[i].success = (nt.sent[i].outcome = "ok")
                  /\ ~sm.results[i].success => sm.results[i].error # "None"
            /\ sm.total_channels = 0 => ~all_successful(sm)
            /\ any_successful(sm) <=> Cardinality(ok) > 0

\* a dispatch on three channels with one success and two failures
C17_Witness ==
    /\ nt.pc = "done"
    /\ nt.summary.total_channels = 3
    /\ nt.summary.successful = 1
    /\ nt.summary.failed = 2

\* ------------------------------------------------------------------------
\* Properties of draft generation
\* ------------------------------------------------------------------------
\* C18: generate_responses returns exactly n drafts numbered 1..n in order,
\* whatever generation calls fail, also when all of them fail.
C18_ExactlyNDrafts ==
    gen.pc = "done" =>
        /\ Len(gen.drafts) = gen.n
        /\ \A i \in 1..Len(gen.drafts) : gen.drafts[i].variant_number = i

\* three variants were asked for and every model call raised
C18_Witness ==
    /\ gen.pc = "done"
    /\ gen.n = MaxVariants
    /\ \A i \in 1..MaxVariants : gen.outcomes[i] = "error"
    /\ \A i \in 1..MaxVariants : gen.drafts[i].content = Template

\* C20: for every variant k > 1 of the returned list, the prompt of variant
\* k was built from the content of variant k - 1, AI-produced or templated.
C20_PromptFromPreceding ==
    gen.pc = "done" =>
        \A k \in 2..gen.n :
            /\ gen.prompts[k].kind = "variant"
            /\ gen.prompts[k].source = gen.drafts[k - 1].content

\* C19: when a draft task completes successfully, the DraftResponse rows
\* of the review are exactly the drafts that task produced, numbered
\* 1..num_variants, with no row of an earlier generation left, also when
\* two such tasks overlap.
C19_DraftsReplaced ==
    [][\A t \in DraftTasks :
         (dt.task[t].pc = "save" /\ dt'.task[t].pc = "done") =>
             /\ dt'.rows = dt.task[t].drafts
             /\ {r.variant_number : r \in dt'.rows}
                    = 1..dt.task[t].num_variants
             /\ Cardinality(dt'.rows) = dt.task[t].num_variants
      ]_vars

\* ------------------------------------------------------------------------
\* Properties of the plan gate of draft generation
\* ------------------------------------------------------------------------
\* the step in which the execution t of a draft task checks the plan
PlanChecked(t) ==
    /\ dt.task[t].pc = "idle"
    /\ dt'.task[t].pc \in {"rejected", "select"}

\* C21: a draft task generates PLAN_VARIANT_LIMITS drafts of the plan it
\* read (free 0, starter 1, professional and enterprise 3); for a free
\* plan it is rejected at the plan check and never deletes a draft or calls
\* the generator; analyze_review enqueues generate_response_drafts only
\* when the plan is not free.
C21_PlanGatedDrafts ==
    [][/\ \A t \in DraftTasks :
            /\ PlanChecked(t) =>
                  /\ dt'.task[t].num_variants =
                        (CASE plan = "free" -> 0
                           [] plan = "starter" -> 1
                           [] OTHER -> 3)
                  /\ plan = "free" <=> dt'.task[t].pc = "rejected"
                  /\ dt'.rows = dt.rows
            /\ dt.task[t].pc = "rejected" =>
                  /\ dt'.task[t] = dt.task[t]
                  /\ dt.task[t].drafts = {}
            /\ (dt.task[t].pc = "generate" /\ dt'.task[t].pc = "save") =>
                  /\ Cardinality(dt'.task[t].drafts) = dt.task[t].num_variants
                  /\ dt.task[t].num_variants \in {1, 3}
       /\ Count(delays', DraftsId(FirstReview))
              > Count(delays, DraftsId(FirstReview)) => plan # "free"
      ]_vars

\* the analysis of a starter-plan owner enqueued the draft task, which
\* saved one draft; the subscription ended, and a regeneration task that
\* was already on the broker was rejected and left that draft in place
C21_Witness ==
    /\ plan = "free"
    /\ \E t \in DraftTasks : /\ dt.task[t].pc = "rejected"
                              /\ dt.task[t].kind = "regenerate"
    /\ Cardinality(dt.rows) = 1
    /\ Count(delays, DraftsId(FirstReview)) = 1

\* ------------------------------------------------------------------------
\* Properties of error handling
\* ------------------------------------------------------------------------
\* the step in which the run executed by w returns or raises after the loop
\* over its page
RunEnds(w) ==
    /\ worker[w].pc = "commit"
    /\ worker'[w].pc = "idle"
    /\ result'[worker[w].id].state # "STARTED"

\* C22: a run in which the handling of some messages of the page failed
\* still commits and advances the checkpoint, and every message of the
\* page but the failed ones has a committed Review afterwards.
C22_FailureSkipsOneMessage ==
    [][\A w \in Workers : (RunEnds(w) /\ worker[w].errors > 0) =>
         /\ result'[worker[w].id].ret = "ok"
         /\ account'.last_checked_at = worker[w].now
         /\ Cardinality({m \in PageSet(w) :
                            \E r \in reviews' : r.message_id = m})
               >= Len(worker[w].page) - worker[w].errors
      ]_vars

\* C23: a run whose insert violated the unique (account, message_id)
\* index, because an overlapping run inserted the same message first, ends
\* with success: it commits the other Reviews it created, advances the
\* checkpoint, and is neither failed nor retried.
C23_ConflictIsSkip ==
    [][\A w \in Workers : (RunEnds(w) /\ worker[w].conflicts > 0) =>
         /\ result'[worker[w].id].state = "SUCCESS"
         /\ result'[worker[w].id].ret = "ok"
         /\ queue' = queue
         /\ account'.last_checked_at = worker[w].now
         /\ \A m \in PageSet(w) : \E r \in reviews' : r.message_id = m
      ]_vars

\* the step in which a provider call of the task executed by w fails
ProviderCallFails(w) ==
    /\ worker[w].pc \in {"fetch", "details"}
    /\ worker'[w].pc = "idle"
    /\ faults' # faults

\* C24: when the provider call of an ingestion or analysis task fails with
\* the non-retryable client error, the task is not put on the broker again.
C24_ClientErrorNotRetried ==
    [][\A w \in Workers : ProviderCallFails(w) =>
         /\ queue' = queue
         /\ result'[worker[w].id].state # "RETRY"
      ]_vars

\* the step in which the task executed by w meets a configuration error
ConfigErrorStep(w) ==
    /\ worker[w].pc \in {"fetch", "details", "analyze"}
    /\ worker'[w].pc = "idle"
    /\ faults' # faults

\* C25: a configuration error (missing AI API key, missing token-encryption
\* key) raised inside a pipeline task ends the task, and the task is not put
\* on the broker again.
C25_ConfigErrorNotRetried ==
    [][\A w \in Workers : ConfigErrorStep(w) =>
         /\ \A msg \in BagToSet(queue') :
                CopiesIn(msg, queue') <= CopiesIn(msg, queue)
         /\ result'[worker[w].id].state \in {"SUCCESS", "FAILURE"}
      ]_vars

\* the step in which the body fetch of the analysis task executed by w is
\* answered with an authentication error
AnalyzeAuthStep(w) ==
    /\ worker[w].pc = "details"
    /\ worker'[w].pc = "idle"
    /\ worker[w].id \in DOMAIN result'
    /\ result'[worker[w].id].ret = "auth"

\* C26: when the body fetch of analyze_review fails with an authentication
\* error, the owning account becomes inactive and the task ends: it is not
\* put on the broker again and the Review is left as it was.
C26_AnalyzeAuthDeactivates ==
    [][\A w \in Workers : AnalyzeAuthStep(w) =>
         /\ ~account'.is_active
         /\ account'.last_checked_at = account.last_checked_at
         /\ result'[worker[w].id].state = "SUCCESS"
         /\ queue' = queue
         /\ delays' = delays
         /\ reviews' = reviews
      ]_vars

\* an analysis task ended on an authentication error of an account that
\* was active when the task was enqueued, and is not on the broker
C26_Witness ==
    \E id \in DOMAIN result :
        /\ id[1] = "analyze"
        /\ result[id].ret = "auth"
        /\ ~account.is_active
        /\ ~Queued(id)
        /\ \E r \in reviews : r.id = ReviewOf(id) /\ ~r.is_processed

\* ------------------------------------------------------------------------
\* Properties of the scheduler
\* ------------------------------------------------------------------------
\* the delay calls of the run for account a
AttemptsFor(a) == {i \in 1..Len(sch.attempts) : sch.attempts[i].account = a}

\* the check tasks on the broker for account a
QueuedChecksFor(a) ==
    {msg \in BagToSet(queue) : msg.id[1] = "check" /\ msg.id[3] = a}

\* C27: a run of schedule_email_checks calls check_emails_for_account.delay
\* exactly once for each active account with last_checked_at null or
\* last_checked_at + check_interval_minutes <= now, and never for an
\* inactive account or one that is not due yet; every task the broker
\* accepted is on the broker once.
C27_OneTaskPerDueAccount ==
    sch.pc = "done" =>
        \A a \in AccountIds :
            LET row == sch.accounts[a]
                due == /\ row.is_active
                       /\ \/ row.last_checked_at = None
                          \/ row.last_checked_at + row.check_interval_minutes
                                 <= sch.now
            IN  /\ Cardinality(AttemptsFor(a)) = IF due THEN 1 ELSE 0
                /\ \A i \in AttemptsFor(a) :
                      IF sch.attempts[i].accepted
                      THEN /\ Cardinality(QueuedChecksFor(a)) = 1
                           /\ \A msg \in QueuedChecksFor(a) :
                                  CopiesIn(msg, queue) = 1
                      ELSE QueuedChecksFor(a) = {}
                /\ ~due => QueuedChecksFor(a) = {}

\* a run at time 1 dispatched the task of an account that became due at
\* that very time and none for an account of the same age with a longer
\* interval
C27_Witness ==
    /\ sch.pc = "done"
    /\ sch.now = 1
    /\ \E a, b \in AccountIds :
        /\ sch.accounts[a].is_active /\ sch.accounts[b].is_active
        /\ sch.accounts[a].last_checked_at = 0
        /\ sch.accounts[a].check_interval_minutes = 1
        /\ sch.accounts[b].last_checked_at = 0
        /\ sch.accounts[b].check_interval_minutes = 2
        /\ Cardinality(QueuedChecksFor(a)) = 1
        /\ QueuedChecksFor(b) = {}

\* the step in which a worker takes the check task id from the broker
\* while the account is inactive or does not exist
InactiveTaken(id) ==
    /\ id[1] = "check"
    /\ Count(execs', id) = Count(execs, id) + 1
    /\ (~account.exists \/ ~account.is_active)

\* C28: check_emails_for_account for an account that is inactive or does
\* not exist returns a failure result at once: no provider call, no Review,
\* last_checked_at unchanged, no retry.
C28_InactiveIsSkipped ==
    [][\A id \in DOMAIN execs' : InactiveTaken(id) =>
         /\ result'[id].state = "SUCCESS"
         /\ result'[id].ret =
               (IF ~account.exists THEN "not_found" ELSE "not_active")
         /\ worker' = worker
         /\ reviews' = reviews
         /\ account' = account
         /\ delays' = delays
         /\ \A msg \in BagToSet(queue') :
                CopiesIn(msg, queue') <= CopiesIn(msg, queue)
      ]_vars

\* a check task of an inactive account with a message in its inbox ended
\* with no Review, no checkpoint and nothing on the broker
C28_Witness ==
    /\ account.exists /\ ~account.is_active
    /\ account.last_checked_at = None
    /\ mailbox[1] # None
    /\ CheckId(1) \in DOMAIN result
    /\ result[CheckId(1)].ret = "not_active"
    /\ reviews = {}
    /\ queue = EmptyBag

C30_DepthByPlan ==
    \A w \in Workers : worker[w].pc = "fanout" =>
        LET a == worker[w].analysis
        IN  /\ a.depth = (IF plan = "free" THEN "basic" ELSE "full")
            /\ a.depth = "basic" =>
                  /\ a.sentiment \in Sentiments
                  /\ a.priority = (IF a.sentiment = "negative"
                                   THEN "important" ELSE "normal")
                  /\ a.problems = "empty"
                  /\ a.suggestions = "empty"
                  /\ a.customer_name = "None"
                  /\ \A r \in reviews :
                        r.id = ReviewOf(worker[w].id) =>
                            /\ r.sentiment = a.sentiment
                            /\ r.priority = a.priority

\* the Review of a free-plan owner got a basic result, negative and
\* important
C30_Witness ==
    \E w \in Workers :
        /\ worker[w].pc = "fanout"
        /\ plan = "free"
        /\ worker[w].analysis.depth = "basic"
        /\ worker[w].analysis.sentiment = "negative"
        /\ worker[w].analysis.priority = "important"

\* ------------------------------------------------------------------------
\* Properties of the OAuth credential lifecycle
\* ------------------------------------------------------------------------
\* the callback c passed the validation of its state token
Validated(c) == oa.cb[c].pc \notin {"idle", "invalid_state"}

\* C31: a state token is accepted by at most one handle_callback call: once
\* one call has validated it, every other call with the same state, later
\* or concurrent, fails with the invalid-state error.
C31_StateSingleUse ==
    \A c1, c2 \in Callbacks :
        (/\ c1 # c2
         /\ oa.cb[c1].state = oa.cb[c2].state
         /\ Validated(c1)) => ~Validated(c2)

\* C32: at most one Account exists per (owner, email) pair after any
\* sequence of callbacks, concurrent ones for the same pair included.
C32_OneAccountPerPair ==
    \A i, j \in 1..Len(oa.accounts) :
        oa.accounts[i].email = oa.accounts[j].email => i = j

\* the step in which refresh_access_token raises
RefreshFails == oa.rf.pc = "called" /\ oa'.rf.pc = "raised"

\* C33: whenever refresh_access_token fails (the provider rejects the
\* refresh, no refresh token is stored, or the stored one cannot be
\* decrypted), the account is inactive afterwards and its stored access
\* token is unchanged.
C33_RefreshFailureDeactivates ==
    [][RefreshFails =>
         /\ ~oa'.accounts[oa.rf.row].is_active
         /\ oa'.accounts[oa.rf.row].oauth_token
                = oa.accounts[oa.rf.row].oauth_token
      ]_vars

\* ------------------------------------------------------------------------
\* Properties of the analysis task under retries and overlap
\* ------------------------------------------------------------------------
\* the step in which the execution by w of an analysis task ends on a
\* failure of the provider call or of the analysis
AnalyzeFails(w) ==
    /\ worker[w].pc \in {"details", "analyze"}
    /\ worker'[w].pc = "idle"
    /\ faults' # faults

\* C34: an analysis task whose provider or analysis call keeps failing is
\* executed at most max_retries + 1 = 4 times, and an execution that fails
\* puts at most one retry of the task on the broker.
C34_AnalyzeRetryBound ==
    [][/\ \A id \in DOMAIN execs' :
            id[1] = "analyze" => execs'[id] <= AnalyzeMaxRetries + 1
       /\ \A w \in Workers : AnalyzeFails(w) =>
            BagCardinality(queue') <= BagCardinality(queue) + 1
      ]_vars

\* the step in which the execution by w saves and commits its analysis
SaveStep(w) == worker[w].pc = "analyze" /\ worker'[w].pc = "fanout"

\* the step in which the execution by w fans out and returns success
FanoutStep(w) ==
    /\ worker[w].pc = "fanout"
    /\ worker'[w].pc = "idle"
    /\ faults' = faults
    /\ result'[worker[w].id].ret = "ok"

\* C35: an execution of analyze_review that analysed the Review enqueues
\* send_notification exactly when the sentiment it stored is negative or
\* the priority it stored is critical, once, and only after the commit that
\* stored them and marked the Review processed; no other step enqueues a
\* notification.
C35_NotifyAfterCommit ==
    [][/\ \A w \in Workers : SaveStep(w) =>
            \E r \in reviews' :
                /\ r.id = ReviewOf(worker[w].id)
                /\ r.is_processed
                /\ r.sentiment = worker'[w].analysis.sentiment
                /\ r.priority = worker'[w].analysis.priority
       /\ \A w \in Workers : FanoutStep(w) =>
            LET rid == ReviewOf(worker[w].id)
                a == worker[w].analysis
                before == Count(delays, NotifyId(rid))
                after == Count(delays', NotifyId(rid))
            IN  /\ \E r \in reviews : r.id = rid /\ r.is_processed
                /\ IF a.sentiment = "negative" \/ a.priority = "critical"
                   THEN /\ after = before + 1
                        /\ CopiesIn(Msg(NotifyId(rid), 0), queue')
                              = CopiesIn(Msg(NotifyId(rid), 0), queue) + 1
                   ELSE /\ after = before
                        /\ CopiesIn(Msg(NotifyId(rid), 0), queue')
                              = CopiesIn(Msg(NotifyId(rid), 0), queue)
       /\ (\E id \in DOMAIN delays' :
              id[1] = "notify" /\ Count(delays', id) # Count(delays, id))
            => \E w \in Workers : FanoutStep(w)
      ]_vars

\* the analysis of a Review stored a positive sentiment with critical
\* priority, and the notification task is on the broker
C35_Witness ==
    /\ AnalyzeId(FirstReview) \in DOMAIN result
    /\ result[AnalyzeId(FirstReview)].ret = "ok"
    /\ \E r \in reviews : /\ r.id = FirstReview /\ r.is_processed
                          /\ r.sentiment = "positive"
                          /\ r.priority = "critical"
    /\ Count(delays, NotifyId(FirstReview)) = 1
    /\ Queued(NotifyId(FirstReview))

\* ------------------------------------------------------------------------
\* Properties of the checkpoint
\* ------------------------------------------------------------------------
\* C36: when a run advances last_checked_at, every message the provider
\* listed for that run has a committed Review.
C36_NoMessageBehindCheckpoint ==
    [][\A w \in Workers :
         (/\ worker[w].pc = "commit"
          /\ worker'[w].pc = "idle"
          /\ account'.last_checked_at # account.last_checked_at) =>
             \A m \in worker[w].listed : \E r \in reviews' : r.message_id = m
      ]_vars

\* a check task of the account is on the broker: a run is still to start
CheckQueued == \E msg \in BagToSet(queue) : msg.id[1] = "check"

\* C37: every message that is in the mailbox of the active account while a
\* run is still to start is eventually ingested as a Review, a message
\* received between the listing and the checkpoint write of an earlier run
\* included.
C37_EveryMessageIngested ==
    \A m \in Messages :
        (mailbox[m] # None /\ CheckQueued) ~> HasReview(m)

\* C38: for each Review the analysis enqueues send_notification at most
\* once and generate_response_drafts at most once, and writes the analysis
\* fields at most once (only while the Review is unprocessed), also when
\* two executions of its analysis task overlap.
C38_FanoutAtMostOnce ==
    [][/\ \A id \in DOMAIN delays' :
            id[1] \in {"notify", "drafts"} => delays'[id] <= 1
       /\ \A w \in Workers : SaveStep(w) =>
            \E r \in reviews : r.id = ReviewOf(worker[w].id) /\ ~r.is_processed
      ]_vars

\* C40: last_checked_at never decreases, under any interleaving of
\* overlapping runs of the account.
C40_CheckpointMonotonic ==
    [][account.last_checked_at # None =>
         /\ account'.last_checked_at # None
         /\ account'.last_checked_at >= account.last_checked_at
      ]_vars

\* ------------------------------------------------------------------------
\* Properties of failed draft tasks
\* ------------------------------------------------------------------------
\* C39: when a draft task fails after it has started, the drafts the review
\* had before the task are still stored.
C39_FailedTaskKeepsDrafts ==
    \A t \in DraftTasks :
        dt.task[t].pc = "failed" => dt.task[t].existing \subseteq dt.rows

====
